---- MODULE Spec2Model ----
(***************************************************************************)
(* The provisioning pipeline of Quark-Media-System: the ResourceRecord     *)
(* store, the transfer queue (queue:transfer) with its dead-letter list    *)
(* (queue:transfer:dead), the ProvisioningWorker pool running handle_task, *)
(* and the ProvisioningAPI operations provision and dead/retry.            *)
(*                                                                         *)
(* The worker and the API routes (workers/transfer_worker.py,              *)
(* core-backend/app/api/routes.py) are documented in the repository but    *)
(* their files are not part of it; handle_task follows the excerpt in      *)
(* services/PHASE3_COMPLETION_REPORT.md (lines 52-64) and everything the   *)
(* excerpt elides follows spec.md, sections 3, 4.4, 4.5 and 4.6.           *)
(***************************************************************************)
EXTENDS Naturals, Integers, Sequences, FiniteSets, TLC

\* ------------------------------------------------------------ bounds
NumRecords == 1
NumWorkers == 2
MaxQueue == 1
MaxCrashes == 1
NumCallers == 2
MaxTicks == 2
TickSeconds == 1800
MaxUpdates == 1
NumClients == 3
MaxArrivals == 4
\* Size of the connection pool in the deployment modelled (the documented
\* default is 10); small, so that a few clients exhaust it.
MaxConnections == 1
NumQueueRecords == 2
NumConsumers == 2
MaxPushes == 3
NumPageTasks == 2
NumLinks == 1
MaxInFlight == 1
MaxBatch == 2
\* Links of the list whose buttons are pressed, and requests outstanding at once.
NumBusyLinks == 2
MaxRequests == 3
\* Largest retry.retries a caller of requestJson passes.
MaxRetries == 2
\* Task ids the mock hands out.
NumMockTasks == 3
\* Groups of a search response and items of a group.
MaxGroups == 2
MaxItems == 2
\* Longest cloudLinks array of an item.
MaxCloudLinks == 2

\* ------------------------------------------------------------ program constants
\* `DEFAULT_RETRY = { retries: 1, backoffMs: 500 }` of the API client.
DEFAULT_RETRIES == 1
DEFAULT_BACKOFF_MS == 500

\* MAX_RETRY_COUNT=3 is the documented default of an environment setting.
MAX_RETRY_COUNT == 3
\* COOKIE_VALIDATION_INTERVAL=3600 (seconds)
COOKIE_VALIDATION_INTERVAL == 3600
\* @retry(stop=stop_after_attempt(3),
\*        wait=wait_exponential(multiplier=1, min=1, max=8), ...)
STOP_AFTER_ATTEMPT == 3
WAIT_MULTIPLIER == 1
WAIT_MIN == 1
WAIT_MAX == 8

Records == 1..NumRecords
Workers == 1..NumWorkers
Callers == 1..NumCallers
Clients == 1..NumClients
QueueRecords == 1..NumQueueRecords
Consumers == 1..NumConsumers
PageTasks == 1..NumPageTasks
Links == 1..NumLinks

\* The values MAX_RETRY_COUNT is configured to in the deployments modelled:
\* retries disabled, and the default.
RetryConfigs == {0, MAX_RETRY_COUNT}

ResourceStatus == {"VIRTUAL", "PROVISIONING", "MATERIALIZED", "FAILED"}

\* Outcome classes of an upstream call (spec 4.2 / 7).
Failures == {"TransientError", "AuthError", "UpstreamRejected"}
Outcomes == {"ok"} \cup Failures

\* Task payload {recordId, sourceRef, attempt}; sourceRef is the record's share.
SourceRefOf(r) == r + 100
NewTask(r) == [recordId |-> r, sourceRef |-> SourceRefOf(r), attempt |-> 0]
NoTask == [recordId |-> 0, sourceRef |-> 0, attempt |-> 0]

\* What the last step returned or logged: the response of provision, or the
\* worker's "media already processing" line when it drops a task.
NoOut == [kind |-> "none", record |-> 0, status |-> "none"]

\* `_last_validated` before the first successful validation.
None == -1
NoProbe == [start |-> None, ok |-> FALSE]
NoGOut == [kind |-> "none", caller |-> 0, verdict |-> FALSE, from |-> 0]

\* A consumer that handles no entry, and the queue before any operation.
NoEntry == [recordId |-> 0, stamp |-> 0, via |-> "none", ahead |-> 0]
NoQOp == [kind |-> "none", record |-> 0]

\* `export type TaskStatus = "pending" | "processing" | "completed" | "failed";`
TaskStatus == {"pending", "processing", "completed", "failed"}

\* The status strings a provision response can carry: the TaskStatus values
\* and the value the backend contract documents beside them.
ProvisionStatus == TaskStatus \cup {"accepted"}

\* tasks: the tasks the operation polled or put in activeTasks.
\* "/QuarkMedia/{type}/{year}/{title}({year})"
DEFAULT_DEST_PATTERN ==
    <<"/QuarkMedia/", "{type}", "/", "{year}", "/", "{title}", "(", "{year}", ")">>

DestPatterns == {DEFAULT_DEST_PATTERN, <<"/Library/", "{type}", "/", "{title}">>}

DEFAULT_RETRY == [retries |-> DEFAULT_RETRIES, backoffMs |-> DEFAULT_BACKOFF_MS]

\* A requestJson call that has not settled.
NoResult == [kind |-> "none", body |-> "none", error |-> <<>>]

\* No ApiErrorShape (`error` undefined) and no ApiResult yet.
NoError == [message |-> "undefined", status |-> 0, code |-> "undefined"]
NoApiResult == [ok |-> FALSE, data |-> "unsettled", error |-> NoError]

NoCall == [fn |-> "none", args |-> <<>>, result |-> <<>>]


VARIABLES
    maxRetry,        \* configured MAX_RETRY_COUNT of this deployment
    sessionValid,    \* SessionGuard verdict
    status,          \* ResourceRecord.status
    retryCount,      \* ResourceRecord.retryCount
    errorMessage,    \* ResourceRecord.errorMessage ("" when cleared)
    destinationPath, \* ResourceRecord.destinationPath ("" when unset)
    queue,           \* main queue (queue:transfer), head is next to deliver
    dead,            \* dead-letter queue (queue:transfer:dead)
    pc,              \* each worker's position in handle_task
    task,            \* the task a worker holds
    outcome,         \* the outcome a worker is about to record
    calls,           \* upstream calls a worker made for the task it holds
    attempt_number,  \* attempts of the worker's current upstream call that
                     \* have failed (tenacity retry_state.attempt_number)
    waited,          \* seconds the worker waited before its current attempt
    crashes,         \* number of worker crashes so far
    out,             \* what the last step returned or logged
    attempts,        \* history: worker-level attempts started per record
    transientFails,  \* history: attempts that ended with TransientError
    awaiting,        \* history: "retry"/"replay" from the moment the record's
                     \* task is re-enqueued until its next attempt starts
    terminated,      \* history: the record's provisioning was force-terminated
                     \* by an operator since its last claim
    \* ---- CookieManager (SessionGuard) ----
    now,             \* wall clock, seconds
    credential,      \* version of the stored credential (cookie)
    is_valid,        \* CookieManager._is_valid
    last_validated,  \* CookieManager._last_validated (None when unset)
    gpc,             \* per caller: "idle" or "probing" (awaiting _get_config)
    callNow,         \* per caller: `now` read at the start of its call
    probeCred,       \* per caller: credential its probe was sent with
    updating,        \* per caller: the call is the re-validation of an update
    gout,            \* what the last CookieManager step returned
    cacheFrom,       \* history: credential that produced the stored verdict
    histProbe,       \* history: start time and result of the last probe that
                     \* completed since the last invalidation or update
    mustProbe,       \* history: invalidated and no probe issued since
    settled,         \* history: newest credential whose update has completed
    startSettled,    \* history per caller: `settled` when its last call began
    \* ---- UpstreamClient connection pool ----
    inUse,           \* clients whose call holds a connection
    waiters,         \* clients waiting for a connection, in order of arrival
    ticket,          \* history per client: arrival number of its call (0: none)
    queued,          \* history per client: its call had to wait
    arrivals,        \* history: calls that have arrived so far
    \* ---- TaskQueue transport (entries told apart by their push number) ----
    transferList,    \* queue:transfer, head is the next entry blpop returns
    deadList,        \* queue:transfer:dead
    consumed,        \* per consumer: the entry it popped and is handling
    pushes,          \* history: number of pushes onto queue:transfer so far
    qop,             \* history: the last queue operation
    \* ---- detail page (movie/[tmdbId]/page.tsx) and the task API it polls ----
    serverStatus,    \* per task: TaskRecord.status at the backend ("none": no task)
    linkStatus,      \* React state linkStatus ("unset": no entry for the link)
    activeTasks,     \* React state activeTasks as last committed (its task ids)
    batch,           \* setActiveTasks updates queued and not yet rendered
    inFlight,        \* pollTasks calls of the current effect awaiting results
    cancelledPolls,  \* a pollTasks call of a cleaned-up effect awaits results
    linkFrom,        \* history per link: the task status its linkStatus came from
    registered,      \* history: tasks handleJitProvision put in activeTasks
    terminalSeen,    \* history: tasks for which a poll returned completed/failed
    \* ---- MediaClassifier ----
    dest_pattern,    \* MediaClassifier.dest_pattern, set at construction
    dirCache,        \* the directory cache: the type of the last path built
    firstCall,       \* history: a call a caller remembered
    between,         \* history: other calls were made since that call
    lastCall,        \* history: the last call and its result
    \* ---- detail page: linkBusy ----
    linkBusy,        \* React state linkBusy (FALSE also for a missing entry)
    requests,        \* save/provision requests awaiting their result, in issue order
    \* ---- API client: one requestJson call ----
    retry,           \* the RetryOptions of the call
    attempt,         \* the loop counter of requestJson
    rqPc,            \* "idle", "loop", "fetch", "sleep", "done"
    rqLog,           \* history: the fetch attempts and sleeps of the call, in order
    rqResult,        \* how the call settled: returned a body or threw an error
    caller,          \* the exported function that made the call ("direct": another caller)
    apiResult,       \* the ApiResult that function resolved to
    \* ---- API client in mock mode ----
    mockTasks,       \* the Map mockTasks: task id -> TaskRecord
    mockOut,         \* history: the last exported call and what it resolved to
    \* ---- API client: one searchQuarkLinks call in backend mode ----
    searchParams,    \* the QuarkSearchParams of the call
    searchData,      \* `response.data` of the backend's answer
    searchRequests,  \* requestJson calls the call made
    searchOut        \* "none", or how the call settled and the LinkItem[] it gave

systemVars == <<maxRetry, sessionValid, status, retryCount, errorMessage,
                destinationPath, queue, dead, pc, task, outcome, calls,
                attempt_number, waited,
                crashes, out, attempts, transientFails, awaiting, terminated>>

guardVars == <<now, credential, is_valid, last_validated, gpc, callNow,
               probeCred, updating, gout, cacheFrom, histProbe, mustProbe,
               settled, startSettled>>

poolVars == <<inUse, waiters, ticket, queued, arrivals>>

queueVars == <<transferList, deadList, consumed, pushes, qop>>

pageVars == <<serverStatus, linkStatus, activeTasks, batch, inFlight,
              cancelledPolls, linkFrom,
              registered, terminalSeen>>

\* The components modelled on their own, beside the pipeline.
classifierVars == <<dest_pattern, dirCache, firstCall, between, lastCall>>

busyVars == <<linkBusy, requests>>

\* The frontend API client and the page state that depends on it alone.
requestVars == <<retry, attempt, rqPc, rqLog, rqResult>>

wrapperVars == <<caller, apiResult>>

mockVars == <<mockTasks, mockOut>>

searchVars == <<searchParams, searchData, searchRequests, searchOut>>

clientVars == <<busyVars, requestVars, wrapperVars, mockVars, searchVars>>

\* Everything but the client models.
serverVars == <<systemVars, guardVars, poolVars, queueVars, pageVars, classifierVars>>

\* What the linkBusy model, the requestJson model and the mock model leave alone.
notBusyVars == <<serverVars, requestVars, wrapperVars, mockVars, searchVars>>
notRequestVars == <<serverVars, busyVars, mockVars, searchVars>>
notMockVars == <<serverVars, busyVars, requestVars, wrapperVars, searchVars>>
notSearchVars == <<serverVars, busyVars, requestVars, wrapperVars, mockVars>>

componentVars == <<queueVars, pageVars, classifierVars, clientVars>>

vars == <<systemVars, guardVars, poolVars, clientVars, componentVars>>

recordVars == <<status, retryCount, errorMessage, destinationPath>>
workerVars == <<pc, task, outcome, calls, attempt_number, waited>>
histVars == <<attempts, transientFails, awaiting, terminated>>

\* ------------------------------------------------------------ helpers
Response(r) == [kind |-> "response", record |-> r, status |-> status[r]]
DroppedLog(r) == [kind |-> "dropped", record |-> r, status |-> status[r]]

RECURSIVE RemoveFirst(_, _)
RemoveFirst(s, r) ==
    IF s = <<>> THEN <<>>
    ELSE IF Head(s).recordId = r THEN Tail(s)
    ELSE <<Head(s)>> \o RemoveFirst(Tail(s), r)

RECURSIVE FirstFor(_, _)
FirstFor(s, r) ==
    IF s = <<>> THEN NoTask
    ELSE IF Head(s).recordId = r THEN Head(s)
    ELSE FirstFor(Tail(s), r)

InQueue(s, r) == \E i \in 1..Len(s) : s[i].recordId = r
CountIn(s, r) == Cardinality({i \in 1..Len(s) : s[i].recordId = r})

\* A worker is in flight on r: it claimed r and has not yet written the outcome.
InFlight(w, r) ==
    /\ pc[w] \in {"claimed", "resolved", "finishing"}
    /\ task[w].recordId = r

Holds(w, r) ==
    /\ pc[w] \in {"dequeued", "claimed", "resolved", "finishing"}
    /\ task[w].recordId = r

\* ------------------------------------------------------------ policy of handle_task
\* Variant without the "already processing" check.
AlreadyProcessing_Never(r) == FALSE

\* `if media.task_status == TaskStatus.processing: return None`
AlreadyProcessing(r) == status[r] = "PROVISIONING"

\* Variant that does not skip terminal records.
Terminal_Never(r) == FALSE

\* spec 4.6: "skip if already claimed/terminal"
Terminal(r) == status[r] \in {"MATERIALIZED", "FAILED"}

\* The claim is a compare-and-set on the status: it succeeds from VIRTUAL only.
ClaimSucceeds(r) == ~AlreadyProcessing(r) /\ ~Terminal(r)

\* Variant that retries every exception (`except Exception`).
Retryable_All(o) == TRUE

\* spec 4.2: only network/transient errors are retryable.
Retryable(o) == o = "TransientError"

\* Variant that never gives up.
HasAttemptsLeft_Always(r) == TRUE

\* `if media.retry_count < MAX_RETRY_COUNT:`
HasAttemptsLeft(r) == retryCount[r] < maxRetry

\* Variant that enqueues on every provision call.
ShouldEnqueue_Always(r) == TRUE

\* provision enqueues a task only for a record that is still VIRTUAL.
ShouldEnqueue(r) == status[r] = "VIRTUAL"

Min(a, b) == IF a < b THEN a ELSE b
Max(a, b) == IF a > b THEN a ELSE b

\* Variant that waits the same time before every attempt.
WaitExponential_Fixed(k) == WAIT_MIN

\* tenacity wait_exponential(multiplier, min, max) after the k-th attempt:
\* multiplier * 2^(k-1), clamped to [min, max].
WaitExponential(k) ==
    Max(WAIT_MIN, Min(WAIT_MULTIPLIER * 2^(k - 1), WAIT_MAX))

\* Variant that retries every failure.
RetryIf_All(e) == TRUE

\* retry_if_exception_type((QuarkNetworkError, httpx.TimeoutException))
RetryIf(e) == e = "TransientError"

\* Variant that allows one attempt more.
ShouldStop_Late(k) == k > STOP_AFTER_ATTEMPT

\* stop_after_attempt(3): no further attempt after the k-th when k >= 3.
ShouldStop(k) == k >= STOP_AFTER_ATTEMPT

\* Variant that counts every inner attempt as a retry of the task.
RetryCountAfterInner_Bumped(w) ==
    [retryCount EXCEPT ![task[w].recordId] = Min(@ + 1, MAX_RETRY_COUNT)]

\* The @retry decorator wraps the client method only: the record is not
\* touched between attempts.
RetryCountAfterInner(w) == retryCount

\* Variant that does not consult the SessionGuard.
IsValid_Always == TRUE

\* SessionGuard.isValid() as the worker sees it.
IsValid == sessionValid

\* Variant that writes whatever the record's status has become.
WriteAllowed_Always(r) == TRUE

\* spec 5: every status write is conditioned on the record still being in
\* the state the worker left it in at the claim.
WriteAllowed(r) == status[r] = "PROVISIONING"

\* Variant that counts the attempt in the payload it pushes.
Payload_Bumped(w) == [task[w] EXCEPT !.attempt = @ + 1]

\* Variant that pushes the payload with its share reference rewritten.
Payload_Resolved(w) == [task[w] EXCEPT !.sourceRef = @ + 1]

\* The payload pushed to a queue is the payload that was dequeued.
Payload(w) == task[w]

\* Variant that records the failure of every attempt on the record.
ErrorMessageAfterRetry_Surfaced(w) ==
    [errorMessage EXCEPT ![task[w].recordId] = outcome[w]]

\* A failure that will be retried is logged only: the record's errorMessage
\* is left as it is (spec 7).
ErrorMessageAfterRetry(w) == errorMessage

\* Variant that records a generic message.
TerminalMessage_Generic(o) == "Provisioning failed"

\* The errorMessage of a terminal failure is the failure's own description,
\* verbatim (spec 7).
TerminalMessage(o) == o

\* Variant that builds no destination.
DestinationOf_Empty(r) == ""

\* The destination built by PathClassifier for the record (never empty).
DestinationOf(r) == "/QuarkMedia/Movies/Unknown/title"

\* ------------------------------------------------------------ initial state
Init ==
    /\ maxRetry \in RetryConfigs
    /\ sessionValid = TRUE
    /\ status = [r \in Records |-> "VIRTUAL"]
    /\ retryCount = [r \in Records |-> 0]
    /\ errorMessage = [r \in Records |-> ""]
    /\ destinationPath = [r \in Records |-> ""]
    /\ queue = <<>>
    /\ dead = <<>>
    /\ pc = [w \in Workers |-> "idle"]
    /\ task = [w \in Workers |-> NoTask]
    /\ outcome = [w \in Workers |-> "none"]
    /\ calls = [w \in Workers |-> 0]
    /\ attempt_number = [w \in Workers |-> 0]
    /\ waited = [w \in Workers |-> 0]
    /\ crashes = 0
    /\ out = NoOut
    /\ attempts = [r \in Records |-> 0]
    /\ transientFails = [r \in Records |-> 0]
    /\ awaiting = [r \in Records |-> "none"]
    /\ terminated = [r \in Records |-> FALSE]
    /\ now = 0
    /\ credential = 0
    /\ is_valid = FALSE
    /\ last_validated = None
    /\ gpc = [c \in Callers |-> "idle"]
    /\ callNow = [c \in Callers |-> 0]
    /\ probeCred = [c \in Callers |-> 0]
    /\ updating = [c \in Callers |-> FALSE]
    /\ gout = NoGOut
    /\ cacheFrom = 0
    /\ histProbe = NoProbe
    /\ mustProbe = FALSE
    /\ settled = 0
    /\ startSettled = [c \in Callers |-> 0]
    /\ inUse = {}
    /\ waiters = <<>>
    /\ ticket = [c \in Clients |-> 0]
    /\ queued = [c \in Clients |-> FALSE]
    /\ arrivals = 0
    /\ transferList = <<>>
    /\ deadList = <<>>
    /\ consumed = [c \in Consumers |-> NoEntry]
    /\ pushes = 0
    /\ qop = NoQOp
    /\ serverStatus = [t \in PageTasks |-> "none"]
    /\ linkStatus = [l \in Links |-> "unset"]
    /\ activeTasks = {}
    /\ batch = <<>>
    /\ inFlight = 0
    /\ cancelledPolls = FALSE
    /\ linkFrom = [l \in Links |-> "none"]
    /\ registered = {}
    /\ terminalSeen = {}
    /\ dest_pattern = DEFAULT_DEST_PATTERN
    /\ dirCache = "none"
    /\ firstCall = NoCall
    /\ lastCall = NoCall
    /\ between = FALSE
    /\ linkBusy = [l \in 1..NumBusyLinks |-> FALSE]
    /\ requests = <<>>
    /\ retry = DEFAULT_RETRY
    /\ attempt = 0
    /\ rqPc = "idle"
    /\ rqLog = <<>>
    /\ rqResult = NoResult
    /\ caller = "direct"
    /\ apiResult = NoApiResult
    /\ mockTasks = <<>>
    /\ mockOut = [fn |-> "none", taskId |-> 0, result |-> NoApiResult]
    /\ searchParams = [query |-> "undefined", tmdbId |-> "undefined"]
    /\ searchData = <<>>
    /\ searchRequests = 0
    /\ searchOut = [kind |-> "none", links |-> <<>>]

\* ------------------------------------------------------------ ProvisioningAPI
\* POST provision(recordId): returns the record's status; enqueues a task when
\* the record is not in flight.
Provision(r) ==
    /\ out' = Response(r)
    /\ IF ShouldEnqueue(r)
       THEN /\ Len(queue) < MaxQueue
            /\ queue' = Append(queue, NewTask(r))
       ELSE queue' = queue
    /\ UNCHANGED <<guardVars, poolVars, componentVars, maxRetry, sessionValid, recordVars, dead, workerVars,
                   crashes, histVars>>

\* POST deadLetter/retry(recordId): moves the record's dead-letter entry back
\* to the main queue, resets retryCount, returns the record to PROVISIONING.
ReplayDeadLetter(r) ==
    /\ InQueue(dead, r)
    /\ queue' = Append(queue, FirstFor(dead, r))
    /\ dead' = RemoveFirst(dead, r)
    /\ status' = [status EXCEPT ![r] = "PROVISIONING"]
    /\ retryCount' = [retryCount EXCEPT ![r] = 0]
    /\ awaiting' = [awaiting EXCEPT ![r] = "replay"]
    /\ out' = NoOut
    /\ UNCHANGED <<guardVars, poolVars, componentVars, maxRetry, sessionValid, errorMessage, destinationPath,
                   workerVars, crashes, attempts, transientFails, terminated>>

\* An operator force-terminates the provisioning a worker is processing by
\* dead-lettering its task: the payload goes to the dead-letter queue and the
\* record is FAILED with an error message. A provisioning is terminated at
\* most once.
ForceDeadLetter(r) ==
    /\ status[r] = "PROVISIONING"
    /\ ~terminated[r]
    /\ \E w \in Workers :
        /\ InFlight(w, r)
        /\ dead' = Append(dead, task[w])
    /\ status' = [status EXCEPT ![r] = "FAILED"]
    /\ errorMessage' = [errorMessage EXCEPT ![r] = "Terminated"]
    /\ terminated' = [terminated EXCEPT ![r] = TRUE]
    /\ out' = NoOut
    /\ UNCHANGED <<guardVars, poolVars, componentVars, maxRetry, sessionValid, retryCount, destinationPath, queue,
                   workerVars, crashes, attempts, transientFails, awaiting>>

\* DELETE tasks/dead: clears the dead-letter queue.
ClearDeadLetter ==
    /\ dead # <<>>
    /\ dead' = <<>>
    /\ out' = NoOut
    /\ UNCHANGED <<guardVars, poolVars, componentVars, maxRetry, sessionValid, recordVars, queue, workerVars,
                   crashes, histVars>>

\* ------------------------------------------------------------ SessionGuard (verdict only)
ExpireSession ==
    /\ sessionValid
    /\ sessionValid' = FALSE
    /\ out' = NoOut
    /\ UNCHANGED <<guardVars, poolVars, componentVars, maxRetry, recordVars, queue, dead, workerVars, crashes,
                   histVars>>

UpdateSession ==
    /\ ~sessionValid
    /\ sessionValid' = TRUE
    /\ out' = NoOut
    /\ UNCHANGED <<guardVars, poolVars, componentVars, maxRetry, recordVars, queue, dead, workerVars, crashes,
                   histVars>>

\* ------------------------------------------------------------ ProvisioningWorker
\* blpop(TRANSFER_QUEUE_KEY)
Dequeue(w) ==
    /\ pc[w] = "idle"
    /\ queue # <<>>
    /\ task' = [task EXCEPT ![w] = Head(queue)]
    /\ queue' = Tail(queue)
    /\ pc' = [pc EXCEPT ![w] = "dequeued"]
    /\ calls' = [calls EXCEPT ![w] = 0]
    /\ attempt_number' = [attempt_number EXCEPT ![w] = 0]
    /\ waited' = [waited EXCEPT ![w] = 0]
    /\ out' = NoOut
    /\ UNCHANGED <<guardVars, poolVars, componentVars, maxRetry, sessionValid, recordVars, dead, outcome, crashes,
                   histVars>>

\* The atomic claim: VIRTUAL -> PROVISIONING, one attempt started.
Claim(w) ==
    LET r == task[w].recordId IN
    /\ pc[w] = "dequeued"
    /\ ClaimSucceeds(r)
    /\ status' = [status EXCEPT ![r] = "PROVISIONING"]
    /\ pc' = [pc EXCEPT ![w] = "claimed"]
    /\ attempts' = [attempts EXCEPT ![r] = @ + 1]
    /\ awaiting' = [awaiting EXCEPT ![r] = "none"]
    /\ terminated' = [terminated EXCEPT ![r] = FALSE]
    /\ out' = NoOut
    /\ UNCHANGED <<guardVars, poolVars, componentVars, maxRetry, sessionValid, retryCount, errorMessage,
                   destinationPath, queue, dead, task, outcome, calls,
                   attempt_number, waited, crashes,
                   transientFails>>

\* Claim failure: the record is already PROVISIONING or terminal; the task is
\* dropped and nothing else happens.
DropTask(w) ==
    LET r == task[w].recordId IN
    /\ pc[w] = "dequeued"
    /\ ~ClaimSucceeds(r)
    /\ pc' = [pc EXCEPT ![w] = "idle"]
    /\ task' = [task EXCEPT ![w] = NoTask]
    /\ out' = DroppedLog(r)
    /\ UNCHANGED <<guardVars, poolVars, componentVars, maxRetry, sessionValid, recordVars, queue, dead, outcome,
                   calls, attempt_number, waited, crashes, histVars>>

\* SessionGuard found invalid: fail fast with an auth error, no upstream call.
SessionInvalid(w) ==
    /\ pc[w] = "claimed"
    /\ attempt_number[w] = 0
    /\ ~IsValid
    /\ outcome' = [outcome EXCEPT ![w] = "AuthError"]
    /\ pc' = [pc EXCEPT ![w] = "finishing"]
    /\ out' = NoOut
    /\ UNCHANGED <<guardVars, poolVars, componentVars, maxRetry, sessionValid, recordVars, queue, dead, task, calls,
                   attempt_number, waited,
                   crashes, histVars>>

\* One attempt of the current upstream call ends with error e, the @retry
\* policy waits and makes a further attempt. Nothing but the worker's own
\* call state changes.
InnerRetry(w) ==
    /\ pc[w] \in {"claimed", "resolved"}
    /\ pc[w] = "claimed" => (IsValid \/ attempt_number[w] > 0)
    /\ \E e \in Failures :
        /\ RetryIf(e)
        /\ ~ShouldStop(attempt_number[w] + 1)
        /\ outcome' = [outcome EXCEPT ![w] = e]
    /\ attempt_number' = [attempt_number EXCEPT ![w] = @ + 1]
    /\ waited' = [waited EXCEPT ![w] = WaitExponential(attempt_number[w] + 1)]
    /\ calls' = [calls EXCEPT ![w] = IF attempt_number[w] = 0 THEN @ + 1 ELSE @]
    /\ retryCount' = RetryCountAfterInner(w)
    /\ out' = NoOut
    /\ UNCHANGED <<guardVars, poolVars, componentVars, maxRetry, sessionValid, status, errorMessage,
                   destinationPath, queue, dead, pc, task, crashes, histVars>>

\* The attempt now running returns o to the worker: a result, an error the
\* policy does not retry, or a retryable error on the last attempt (reraise).
Returns(w, o) ==
    (o # "ok" /\ RetryIf(o)) => ShouldStop(attempt_number[w] + 1)

\* UpstreamClient.resolveShare returning o to the worker.
ResolveShareWith(w, o) ==
    /\ pc[w] = "claimed"
    /\ IsValid \/ attempt_number[w] > 0
    /\ Returns(w, o)
    /\ calls' = [calls EXCEPT ![w] = IF attempt_number[w] = 0 THEN @ + 1 ELSE @]
    /\ IF o = "ok"
       THEN /\ pc' = [pc EXCEPT ![w] = "resolved"]
            /\ outcome' = [outcome EXCEPT ![w] = "none"]
            /\ attempt_number' = [attempt_number EXCEPT ![w] = 0]
       ELSE /\ pc' = [pc EXCEPT ![w] = "finishing"]
            /\ outcome' = [outcome EXCEPT ![w] = o]
            /\ attempt_number' = [attempt_number EXCEPT ![w] = @ + 1]
    /\ waited' = [waited EXCEPT ![w] = 0]
    /\ sessionValid' = (sessionValid /\ o # "AuthError")
    /\ out' = NoOut
    /\ UNCHANGED <<guardVars, poolVars, componentVars, maxRetry, recordVars, queue, dead, task, crashes, histVars>>

ResolveShare(w) == \E o \in Outcomes : ResolveShareWith(w, o)

\* classify + buildDestination (pure), then UpstreamClient.materialize
\* returning o to the worker.
MaterializeWith(w, o) ==
    /\ pc[w] = "resolved"
    /\ Returns(w, o)
    /\ calls' = [calls EXCEPT ![w] = IF attempt_number[w] = 0 THEN @ + 1 ELSE @]
    /\ outcome' = [outcome EXCEPT ![w] = o]
    /\ attempt_number' = [attempt_number EXCEPT ![w] =
                             IF o = "ok" THEN 0 ELSE @ + 1]
    /\ waited' = [waited EXCEPT ![w] = 0]
    /\ sessionValid' = (sessionValid /\ o # "AuthError")
    /\ pc' = [pc EXCEPT ![w] = "finishing"]
    /\ out' = NoOut
    /\ UNCHANGED <<guardVars, poolVars, componentVars, maxRetry, recordVars, queue, dead, task, crashes, histVars>>

Materialize(w) == \E o \in Outcomes : MaterializeWith(w, o)

Release(w) ==
    /\ pc' = [pc EXCEPT ![w] = "idle"]
    /\ task' = [task EXCEPT ![w] = NoTask]
    /\ outcome' = [outcome EXCEPT ![w] = "none"]
    /\ calls' = [calls EXCEPT ![w] = 0]
    /\ attempt_number' = [attempt_number EXCEPT ![w] = 0]
    /\ waited' = [waited EXCEPT ![w] = 0]

\* `media.task_status = TaskStatus.completed`
WriteSuccess(w) ==
    LET r == task[w].recordId IN
    /\ pc[w] = "finishing"
    /\ WriteAllowed(r)
    /\ outcome[w] = "ok"
    /\ status' = [status EXCEPT ![r] = "MATERIALIZED"]
    /\ destinationPath' = [destinationPath EXCEPT ![r] =
                              IF @ = "" THEN DestinationOf(r) ELSE @]
    /\ errorMessage' = [errorMessage EXCEPT ![r] = ""]
    /\ Release(w)
    /\ out' = NoOut
    /\ UNCHANGED <<guardVars, poolVars, componentVars, maxRetry, sessionValid, retryCount, queue, dead,
                   crashes, histVars>>

\* `rpush(TRANSFER_QUEUE_KEY, payload)`: the retry self-loop.
WriteRetry(w) ==
    LET r == task[w].recordId IN
    /\ pc[w] = "finishing"
    /\ WriteAllowed(r)
    /\ outcome[w] \in Failures
    /\ Retryable(outcome[w])
    /\ HasAttemptsLeft(r)
    /\ retryCount' = [retryCount EXCEPT ![r] = @ + 1]
    /\ queue' = Append(queue, Payload(w))
    /\ errorMessage' = ErrorMessageAfterRetry(w)
    /\ transientFails' = [transientFails EXCEPT ![r] = @ + 1]
    /\ awaiting' = [awaiting EXCEPT ![r] = "retry"]
    /\ Release(w)
    /\ out' = NoOut
    /\ UNCHANGED <<guardVars, poolVars, componentVars, maxRetry, sessionValid, status,
                   destinationPath, dead, crashes, attempts, terminated>>

\* `rpush(DEAD_QUEUE_KEY, payload)`: attempts exhausted.
WriteDeadLetter(w) ==
    LET r == task[w].recordId IN
    /\ pc[w] = "finishing"
    /\ WriteAllowed(r)
    /\ outcome[w] \in Failures
    /\ Retryable(outcome[w])
    /\ ~HasAttemptsLeft(r)
    /\ dead' = Append(dead, Payload(w))
    /\ status' = [status EXCEPT ![r] = "FAILED"]
    /\ errorMessage' = [errorMessage EXCEPT ![r] = TerminalMessage(outcome[w])]
    /\ transientFails' = [transientFails EXCEPT ![r] = @ + 1]
    /\ Release(w)
    /\ out' = NoOut
    /\ UNCHANGED <<guardVars, poolVars, componentVars, maxRetry, sessionValid, retryCount, destinationPath, queue,
                   crashes, attempts, awaiting, terminated>>

\* Non-retryable failure: straight to FAILED, the task is deleted.
WriteFailed(w) ==
    LET r == task[w].recordId IN
    /\ pc[w] = "finishing"
    /\ WriteAllowed(r)
    /\ outcome[w] \in Failures
    /\ ~Retryable(outcome[w])
    /\ status' = [status EXCEPT ![r] = "FAILED"]
    /\ errorMessage' = [errorMessage EXCEPT ![r] = TerminalMessage(outcome[w])]
    /\ Release(w)
    /\ out' = NoOut
    /\ UNCHANGED <<guardVars, poolVars, componentVars, maxRetry, sessionValid, retryCount, destinationPath, queue,
                   dead, crashes, histVars>>

\* The defensive check fails: the final write is a no-op, the task is dropped.
WriteSkipped(w) ==
    LET r == task[w].recordId IN
    /\ pc[w] = "finishing"
    /\ ~WriteAllowed(r)
    /\ Release(w)
    /\ out' = NoOut
    /\ UNCHANGED <<guardVars, poolVars, componentVars, maxRetry, sessionValid, recordVars, queue, dead, crashes,
                   histVars>>

\* A worker dies while it holds a task and is restarted; the queue redelivers
\* the task (at-least-once delivery).
Crash(w) ==
    /\ pc[w] \in {"dequeued", "claimed", "resolved", "finishing"}
    /\ crashes < MaxCrashes
    /\ crashes' = crashes + 1
    /\ queue' = <<task[w]>> \o queue
    /\ pc' = [pc EXCEPT ![w] = "idle"]
    /\ task' = [task EXCEPT ![w] = NoTask]
    /\ outcome' = [outcome EXCEPT ![w] = "none"]
    /\ calls' = [calls EXCEPT ![w] = 0]
    /\ attempt_number' = [attempt_number EXCEPT ![w] = 0]
    /\ waited' = [waited EXCEPT ![w] = 0]
    /\ out' = NoOut
    /\ UNCHANGED <<guardVars, poolVars, componentVars, maxRetry, sessionValid, recordVars, dead, histVars>>

WorkerStep(w) ==
    \/ Dequeue(w)
    \/ Claim(w)
    \/ DropTask(w)
    \/ SessionInvalid(w)
    \/ InnerRetry(w)
    \/ ResolveShare(w)
    \/ Materialize(w)
    \/ WriteSuccess(w)
    \/ WriteRetry(w)
    \/ WriteDeadLetter(w)
    \/ WriteFailed(w)
    \/ WriteSkipped(w)

Next ==
    \/ \E r \in Records : Provision(r)
    \/ \E r \in Records : ReplayDeadLetter(r)
    \/ \E r \in Records : ForceDeadLetter(r)
    \/ ClearDeadLetter
    \/ ExpireSession
    \/ UpdateSession
    \/ \E w \in Workers : WorkerStep(w)
    \/ \E w \in Workers : Crash(w)

Spec == Init /\ [][Next]_vars

\* Workers keep running: every worker step that stays enabled is taken.
FairSpec == Spec /\ \A w \in Workers : WF_vars(WorkerStep(w))

\* The worker protocol on its own: requests, replays and worker steps, with
\* no worker dying and no operator terminating a task by hand.
ProtocolStep(w) ==
    \/ Dequeue(w)
    \/ Claim(w)
    \/ DropTask(w)
    \/ SessionInvalid(w)
    \/ InnerRetry(w)
    \/ ResolveShare(w)
    \/ Materialize(w)
    \/ WriteSuccess(w)
    \/ WriteRetry(w)
    \/ WriteDeadLetter(w)
    \/ WriteFailed(w)

ProtocolNext ==
    \/ \E r \in Records : Provision(r)
    \/ \E r \in Records : ReplayDeadLetter(r)
    \/ ClearDeadLetter
    \/ ExpireSession
    \/ UpdateSession
    \/ \E w \in Workers : ProtocolStep(w)

ProtocolSpec == Init /\ [][ProtocolNext]_vars

\* The end-to-end scenario: the session stays valid, the share resolves and
\* materializes without error, no worker dies.
ReachableWorkerStep(w) ==
    \/ Dequeue(w)
    \/ Claim(w)
    \/ DropTask(w)
    \/ ResolveShareWith(w, "ok")
    \/ MaterializeWith(w, "ok")
    \/ WriteSuccess(w)

ReachableNext ==
    \/ \E r \in Records : Provision(r)
    \/ \E w \in Workers : ReachableWorkerStep(w)

ReachableSpec ==
    Init /\ [][ReachableNext]_vars
         /\ \A w \in Workers : WF_vars(ReachableWorkerStep(w))

TypeOK ==
    /\ maxRetry \in RetryConfigs
    /\ sessionValid \in BOOLEAN
    /\ status \in [Records -> ResourceStatus]
    /\ retryCount \in [Records -> 0..MAX_RETRY_COUNT]
    /\ errorMessage \in [Records -> {"", "Terminated"} \cup Failures]
    /\ terminated \in [Records -> BOOLEAN]
    /\ pc \in [Workers -> {"idle", "dequeued", "claimed", "resolved",
                           "finishing"}]
    /\ outcome \in [Workers -> {"none"} \cup Outcomes]
    /\ calls \in [Workers -> 0..2]
    /\ attempt_number \in [Workers -> 0..STOP_AFTER_ATTEMPT]
    /\ waited \in [Workers -> 0..WAIT_MAX]
    /\ crashes \in 0..MaxCrashes

\* ------------------------------------------------------------ CookieManager
\* Variant that never trusts the stored verdict.
CacheFresh_Never(t) == FALSE

\* `self._last_validated and (now - self._last_validated).total_seconds()
\*  < self._validation_interval`
CacheFresh(t) ==
    /\ last_validated # None
    /\ t - last_validated < COOKIE_VALIDATION_INTERVAL

\* Time passes.
Tick ==
    /\ now < MaxTicks * TickSeconds
    /\ now' = now + TickSeconds
    /\ gout' = NoGOut
    /\ UNCHANGED <<systemVars, poolVars, componentVars, credential, is_valid, last_validated, gpc,
                   callNow, probeCred, updating, cacheFrom, histProbe,
                   mustProbe, settled, startSettled>>

\* validate_cookie up to its first suspension: the stored verdict is returned
\* when it is fresh, otherwise the probe `_get_config()` is sent and awaited.
ValidateCookie(c) ==
    /\ gpc[c] = "idle"
    /\ callNow' = [callNow EXCEPT ![c] = now]
    /\ startSettled' = [startSettled EXCEPT ![c] = settled]
    /\ IF CacheFresh(now)
       THEN /\ gout' = [kind |-> "cached", caller |-> c,
                        verdict |-> is_valid, from |-> cacheFrom]
            /\ UNCHANGED <<gpc, probeCred, mustProbe>>
       ELSE /\ gout' = [kind |-> "probe", caller |-> c,
                        verdict |-> FALSE, from |-> credential]
            /\ gpc' = [gpc EXCEPT ![c] = "probing"]
            /\ probeCred' = [probeCred EXCEPT ![c] = credential]
            /\ mustProbe' = FALSE
    /\ UNCHANGED <<systemVars, poolVars, componentVars, now, credential, is_valid, last_validated,
                   updating, cacheFrom, histProbe, settled>>

\* The update completes when its re-validation returns.
SettledAfter(c) ==
    IF updating[c] /\ probeCred[c] > settled THEN probeCred[c] ELSE settled

\* `_get_config()` returned: `_is_valid = True; _last_validated = now`.
ProbeSucceeds(c) ==
    /\ gpc[c] = "probing"
    /\ is_valid' = TRUE
    /\ last_validated' = callNow[c]
    /\ gpc' = [gpc EXCEPT ![c] = "idle"]
    /\ updating' = [updating EXCEPT ![c] = FALSE]
    /\ gout' = [kind |-> "probed", caller |-> c, verdict |-> TRUE,
                from |-> probeCred[c]]
    /\ cacheFrom' = probeCred[c]
    /\ histProbe' = [start |-> callNow[c], ok |-> TRUE]
    /\ settled' = SettledAfter(c)
    /\ UNCHANGED <<systemVars, poolVars, componentVars, now, credential, callNow, probeCred, mustProbe,
                   startSettled>>

\* `_get_config()` raised: `_is_valid = False` (`_last_validated` is kept).
ProbeFails(c) ==
    /\ gpc[c] = "probing"
    /\ is_valid' = FALSE
    /\ gpc' = [gpc EXCEPT ![c] = "idle"]
    /\ updating' = [updating EXCEPT ![c] = FALSE]
    /\ gout' = [kind |-> "probed", caller |-> c, verdict |-> FALSE,
                from |-> probeCred[c]]
    /\ cacheFrom' = probeCred[c]
    /\ histProbe' = [start |-> callNow[c], ok |-> FALSE]
    /\ settled' = SettledAfter(c)
    /\ UNCHANGED <<systemVars, poolVars, componentVars, now, credential, last_validated, callNow,
                   probeCred, mustProbe, startSettled>>

\* invalidate(): called after an upstream AuthError, forces a re-check.
Invalidate ==
    /\ last_validated # None
    /\ last_validated' = None
    /\ mustProbe' = TRUE
    /\ histProbe' = NoProbe
    /\ gout' = NoGOut
    /\ UNCHANGED <<systemVars, poolVars, componentVars, now, credential, is_valid, gpc, callNow,
                   probeCred, updating, cacheFrom, settled, startSettled>>

\* updateSession(newCredential): replaces the credential and immediately
\* re-validates with it.
UpdateCookie(c) ==
    /\ gpc[c] = "idle"
    /\ credential < MaxUpdates
    /\ credential' = credential + 1
    /\ last_validated' = None
    /\ callNow' = [callNow EXCEPT ![c] = now]
    /\ startSettled' = [startSettled EXCEPT ![c] = settled]
    /\ gpc' = [gpc EXCEPT ![c] = "probing"]
    /\ probeCred' = [probeCred EXCEPT ![c] = credential + 1]
    /\ updating' = [updating EXCEPT ![c] = TRUE]
    /\ mustProbe' = FALSE
    /\ histProbe' = NoProbe
    /\ gout' = [kind |-> "update", caller |-> c, verdict |-> FALSE,
                from |-> credential + 1]
    /\ UNCHANGED <<systemVars, poolVars, componentVars, now, is_valid, cacheFrom, settled>>

GuardNext ==
    \/ Tick
    \/ \E c \in Callers : ValidateCookie(c)
    \/ \E c \in Callers : ProbeSucceeds(c)
    \/ \E c \in Callers : ProbeFails(c)
    \/ Invalidate
    \/ \E c \in Callers : UpdateCookie(c)

GuardSpec == Init /\ [][GuardNext]_vars

GuardTypeOK ==
    /\ now \in 0..(MaxTicks * TickSeconds)
    /\ credential \in 0..MaxUpdates
    /\ is_valid \in BOOLEAN
    /\ last_validated \in {None} \cup 0..(MaxTicks * TickSeconds)
    /\ gpc \in [Callers -> {"idle", "probing"}]
    /\ mustProbe \in BOOLEAN
    /\ settled \in 0..MaxUpdates

\* ------------------------------------------------------------ connection pool
\* Variant that serves the most recent waiter first.
NextWaiter_Last(ws) == ws[Len(ws)]

\* Acquisition queues FIFO: the longest-waiting call is served next.
NextWaiter(ws) == Head(ws)

Without(ws, c) == SelectSeq(ws, LAMBDA x : x # c)

PoolExhausted == Cardinality(inUse) >= MaxConnections

\* An upstream call of client c arrives: it takes a connection when one is
\* free and nobody is waiting, otherwise it waits at the end of the line.
AcquireConnection(c) ==
    /\ ticket[c] = 0
    /\ arrivals < MaxArrivals
    /\ arrivals' = arrivals + 1
    /\ ticket' = [ticket EXCEPT ![c] = arrivals + 1]
    /\ IF ~PoolExhausted /\ waiters = <<>>
       THEN /\ inUse' = inUse \cup {c}
            /\ waiters' = waiters
            /\ queued' = [queued EXCEPT ![c] = FALSE]
       ELSE /\ inUse' = inUse
            /\ waiters' = Append(waiters, c)
            /\ queued' = [queued EXCEPT ![c] = TRUE]
    /\ UNCHANGED <<systemVars, guardVars, componentVars>>

\* A connection is free: the next waiter gets it.
GrantConnection ==
    /\ ~PoolExhausted
    /\ waiters # <<>>
    /\ inUse' = inUse \cup {NextWaiter(waiters)}
    /\ waiters' = Without(waiters, NextWaiter(waiters))
    /\ UNCHANGED <<systemVars, guardVars, componentVars, ticket, queued, arrivals>>

\* The call of client c ends and returns its connection.
ReleaseConnection(c) ==
    /\ c \in inUse
    /\ inUse' = inUse \ {c}
    /\ ticket' = [ticket EXCEPT ![c] = 0]
    /\ queued' = [queued EXCEPT ![c] = FALSE]
    /\ UNCHANGED <<systemVars, guardVars, componentVars, waiters, arrivals>>

\* The per-call timeout expires while client c waits: the call fails.
AcquireTimeout(c) ==
    /\ \E i \in 1..Len(waiters) : waiters[i] = c
    /\ waiters' = Without(waiters, c)
    /\ ticket' = [ticket EXCEPT ![c] = 0]
    /\ queued' = [queued EXCEPT ![c] = FALSE]
    /\ UNCHANGED <<systemVars, guardVars, componentVars, inUse, arrivals>>

PoolNext ==
    \/ \E c \in Clients : AcquireConnection(c)
    \/ GrantConnection
    \/ \E c \in Clients : ReleaseConnection(c)
    \/ \E c \in Clients : AcquireTimeout(c)

PoolSpec == Init /\ [][PoolNext]_vars

PoolTypeOK ==
    /\ inUse \subseteq Clients
    /\ ticket \in [Clients -> 0..MaxArrivals]
    /\ queued \in [Clients -> BOOLEAN]
    /\ arrivals \in 0..MaxArrivals
    /\ Len(waiters) <= NumClients

\* ------------------------------------------------------------ TaskQueue transport
\* The two Redis lists and the operations on them, with every entry told
\* apart by the number of the push that put it on queue:transfer. What a
\* consumer does with the entry it popped (done, retry, dead-letter) is left
\* open here; handle_task decides it in the pipeline above, where a worker
\* that dies is modelled too.
Entry(r, via) ==
    [recordId |-> r, stamp |-> pushes + 1, via |-> via,
     ahead |-> Len(transferList)]

QOp(k, r) == [kind |-> k, record |-> r]

\* Variant that pushes the retried task to the head (lpush).
RetryPush_Head(q, e) == <<e>> \o q

\* `rpush(TRANSFER_QUEUE_KEY, json.dumps(payload))`
RetryPush(q, e) == Append(q, e)

\* Variant that drains the whole dead-letter list on a replay.
DeadAfterRetry_Cleared(d, r) == <<>>

\* POST tasks/dead/retry/{media_id} takes the entry of that record off the
\* dead-letter list.
DeadAfterRetry(d, r) == RemoveFirst(d, r)

\* provision pushes a task for r.
QueuePush(r) ==
    /\ pushes < MaxPushes
    /\ transferList' = Append(transferList, Entry(r, "provision"))
    /\ pushes' = pushes + 1
    /\ qop' = QOp("push", r)
    /\ UNCHANGED <<systemVars, guardVars, poolVars, clientVars, pageVars, classifierVars, deadList, consumed>>

\* `task = await redis_client.blpop(TRANSFER_QUEUE_KEY)`
Blpop(c) ==
    /\ consumed[c] = NoEntry
    /\ transferList # <<>>
    /\ consumed' = [consumed EXCEPT ![c] = Head(transferList)]
    /\ transferList' = Tail(transferList)
    /\ qop' = QOp("blpop", Head(transferList).recordId)
    /\ UNCHANGED <<systemVars, guardVars, poolVars, clientVars, pageVars, classifierVars, deadList, pushes>>

\* Success or non-retryable failure: the entry is not pushed anywhere.
TaskDone(c) ==
    /\ consumed[c] # NoEntry
    /\ consumed' = [consumed EXCEPT ![c] = NoEntry]
    /\ qop' = QOp("done", consumed[c].recordId)
    /\ UNCHANGED <<systemVars, guardVars, poolVars, clientVars, pageVars, classifierVars, transferList, deadList, pushes>>

\* Retryable failure with attempts left: the task is pushed again.
TaskRetry(c) ==
    /\ consumed[c] # NoEntry
    /\ pushes < MaxPushes
    /\ transferList' = RetryPush(transferList, Entry(consumed[c].recordId, "retry"))
    /\ pushes' = pushes + 1
    /\ consumed' = [consumed EXCEPT ![c] = NoEntry]
    /\ qop' = QOp("retry", consumed[c].recordId)
    /\ UNCHANGED <<systemVars, guardVars, poolVars, clientVars, pageVars, classifierVars, deadList>>

\* `rpush(DEAD_QUEUE_KEY, json.dumps(payload))`
TaskDead(c) ==
    /\ consumed[c] # NoEntry
    /\ deadList' = Append(deadList, consumed[c])
    /\ consumed' = [consumed EXCEPT ![c] = NoEntry]
    /\ qop' = QOp("dead", consumed[c].recordId)
    /\ UNCHANGED <<systemVars, guardVars, poolVars, clientVars, pageVars, classifierVars, transferList, pushes>>

\* POST tasks/dead/retry/{media_id}: the record's dead-letter entry is pushed
\* onto queue:transfer again.
DeadRetry(r) ==
    /\ InQueue(deadList, r)
    /\ pushes < MaxPushes
    /\ transferList' = Append(transferList, Entry(r, "replay"))
    /\ deadList' = DeadAfterRetry(deadList, r)
    /\ pushes' = pushes + 1
    /\ qop' = QOp("deadRetry", r)
    /\ UNCHANGED <<systemVars, guardVars, poolVars, clientVars, pageVars, classifierVars, consumed>>

\* DELETE tasks/dead
DeadClear ==
    /\ deadList # <<>>
    /\ deadList' = <<>>
    /\ qop' = QOp("deadClear", 0)
    /\ UNCHANGED <<systemVars, guardVars, poolVars, clientVars, pageVars, classifierVars, transferList, consumed, pushes>>

QueueNext ==
    \/ \E r \in QueueRecords : QueuePush(r)
    \/ \E c \in Consumers : Blpop(c)
    \/ \E c \in Consumers : TaskDone(c)
    \/ \E c \in Consumers : TaskRetry(c)
    \/ \E c \in Consumers : TaskDead(c)
    \/ \E r \in QueueRecords : DeadRetry(r)
    \/ DeadClear

QueueSpec == Init /\ [][QueueNext]_vars

QueueTypeOK ==
    /\ pushes \in 0..MaxPushes
    /\ Len(transferList) + Len(deadList) <= pushes
    /\ \A i \in 1..Len(transferList) : transferList[i].stamp \in 1..pushes
    /\ \A i \in 1..Len(deadList) : deadList[i].recordId \in QueueRecords
    /\ \A c \in Consumers : consumed[c].recordId \in QueueRecords \cup {0}

\* ------------------------------------------------------------ detail page
\* The link a task was started for (`activeTasks[taskId].linkId`).
LinkOf(t) == ((t - 1) % NumLinks) + 1

mapTaskStatus_DefaultVirtual(s) ==
    CASE s \in {"pending", "processing"} -> "PROVISIONING"
      [] s = "completed" -> "MATERIALIZED"
      [] s = "failed" -> "FAILED"
      [] OTHER -> "VIRTUAL"

\* const mapTaskStatus = (status: string): ResourceStatus => { switch ... }
mapTaskStatus(s) ==
    CASE s \in {"pending", "processing"} -> "PROVISIONING"
      [] s = "completed" -> "MATERIALIZED"
      [] s = "failed" -> "FAILED"
      [] OTHER -> "PROVISIONING"

\* React applies the queued setActiveTasks updates in the order of the calls:
\* `prev => ({...prev, [taskId]: ...})` adds to the value so far, and
\* `setActiveTasks(nextTasks)` replaces it.
RECURSIVE ApplyUpdates(_, _)
ApplyUpdates(updates, tasks) ==
    IF updates = <<>> THEN tasks
    ELSE ApplyUpdates(Tail(updates),
                      IF Head(updates).kind = "add"
                      THEN tasks \cup Head(updates).tasks
                      ELSE Head(updates).tasks)

\* The tasks the page will track once the queued updates are rendered.
Tracked == ApplyUpdates(batch, activeTasks)

\* The task whose result the forEach of pollTasks writes last for link l:
\* Object.keys keeps insertion order, and task ids are handed out in order.
LastTaskOf(l, tasks) ==
    CHOOSE t \in tasks : LinkOf(t) = l /\ \A u \in tasks : LinkOf(u) = l => u <= t

\* handleSaveVirtual: `result.data?.status ?? "VIRTUAL"`.
HandleSaveVirtual(l) ==
    /\ linkStatus' = [linkStatus EXCEPT ![l] = "VIRTUAL"]
    /\ linkFrom' = [linkFrom EXCEPT ![l] = "none"]
    /\ UNCHANGED <<systemVars, guardVars, poolVars, clientVars, queueVars, classifierVars, serverStatus,
                   activeTasks, batch, inFlight, cancelledPolls, registered,
                   terminalSeen>>

\* handleJitProvision with `result.ok && result.data`: the backend created
\* task t and answered with its record, whose status is s.
HandleJitProvision(t, s) ==
    /\ serverStatus[t] = "none"
    /\ \A u \in PageTasks : u < t => serverStatus[u] # "none"
    /\ serverStatus' = [serverStatus EXCEPT ![t] = s]
    /\ linkStatus' = [linkStatus EXCEPT ![LinkOf(t)] = mapTaskStatus(s)]
    /\ linkFrom' = [linkFrom EXCEPT ![LinkOf(t)] = s]
    /\ IF s \in {"pending", "processing"}
       THEN /\ Len(batch) < MaxBatch
            /\ batch' = Append(batch, [kind |-> "add", tasks |-> {t}])
            /\ registered' = registered \cup {t}
       ELSE UNCHANGED <<batch, registered>>
    /\ UNCHANGED <<systemVars, guardVars, poolVars, clientVars, queueVars, classifierVars, activeTasks,
                   inFlight, cancelledPolls, terminalSeen>>

\* The backend moves a task on: pending -> processing -> completed | failed.
TaskProgress(t, s) ==
    /\ \/ serverStatus[t] = "pending" /\ s = "processing"
       \/ serverStatus[t] = "processing" /\ s \in {"completed", "failed"}
    /\ serverStatus' = [serverStatus EXCEPT ![t] = s]
    /\ UNCHANGED <<systemVars, guardVars, poolVars, clientVars, queueVars, classifierVars, linkStatus,
                   activeTasks, batch, inFlight, cancelledPolls, linkFrom,
                   registered, terminalSeen>>

\* React renders the queued updates; activeTasks changed, so the effect is
\* cleaned up (`cancelled = true; clearInterval`: its polls in flight become
\* polls of a cleaned-up effect) and runs again: it returns at once when
\* there are no task ids, and otherwise calls pollTasks() and starts the
\* interval.
Render ==
    /\ batch # <<>>
    /\ activeTasks' = Tracked
    /\ batch' = <<>>
    /\ inFlight' = IF Tracked = {} THEN 0 ELSE 1
    /\ cancelledPolls' = (cancelledPolls \/ inFlight > 0)
    /\ UNCHANGED <<systemVars, guardVars, poolVars, clientVars, queueVars, classifierVars, serverStatus,
                   linkStatus, linkFrom, registered, terminalSeen>>

\* `setInterval(pollTasks, 4000)` fires: getTaskStatus is called for every
\* task id of the effect's activeTasks.
IntervalTick ==
    /\ activeTasks # {}
    /\ inFlight < MaxInFlight
    /\ inFlight' = inFlight + 1
    /\ UNCHANGED <<systemVars, guardVars, poolVars, clientVars, queueVars, classifierVars, serverStatus,
                   linkStatus, activeTasks, batch, cancelledPolls, linkFrom,
                   registered, terminalSeen>>

\* What one getTaskStatus call of a poll gives for task t, the requests of
\* `errors` having failed (`!result.ok || !result.data`).
PollResult(t, errors) == IF t \in errors THEN "unavailable" ELSE serverStatus[t]

\* The tasks a poll with these failed requests deletes from nextTasks.
PollRemoves(errors) ==
    {t \in activeTasks : PollResult(t, errors) \in {"unavailable", "completed", "failed"}}

PollLinkStatus(t, errors) ==
    IF t \in errors THEN "FAILED" ELSE mapTaskStatus(serverStatus[t])

\* The results of a pollTasks call of the current effect arrive and its
\* forEach runs; `errors` are the tasks whose request failed.
PollReturns(errors) ==
    /\ inFlight > 0
    /\ errors \subseteq activeTasks
    /\ inFlight' = inFlight - 1
    /\ linkStatus' =
           [l \in Links |->
               IF \E t \in activeTasks : LinkOf(t) = l
               THEN PollLinkStatus(LastTaskOf(l, activeTasks), errors)
               ELSE linkStatus[l]]
    /\ linkFrom' =
           [l \in Links |->
               IF \E t \in activeTasks : LinkOf(t) = l
               THEN PollResult(LastTaskOf(l, activeTasks), errors)
               ELSE linkFrom[l]]
    /\ IF PollRemoves(errors) # {}
       THEN /\ Len(batch) < MaxBatch
            /\ batch' = Append(batch, [kind |-> "set",
                                       tasks |-> activeTasks \ PollRemoves(errors)])
       ELSE batch' = batch
    /\ terminalSeen' = terminalSeen \cup
           {t \in activeTasks : PollResult(t, errors) \in {"completed", "failed"}}
    /\ UNCHANGED <<systemVars, guardVars, poolVars, clientVars, queueVars, classifierVars, serverStatus,
                   activeTasks, cancelledPolls, registered>>

\* The results of the pollTasks calls of a cleaned-up effect arrive:
\* `if (cancelled) return` leaves before the forEach and before either
\* setter is called.
CancelledPollReturns ==
    /\ cancelledPolls
    /\ cancelledPolls' = FALSE
    /\ UNCHANGED <<systemVars, guardVars, poolVars, clientVars, queueVars, classifierVars, serverStatus,
                   linkStatus, activeTasks, batch, inFlight, linkFrom,
                   registered, terminalSeen>>

PageNext ==
    \/ \E l \in Links : HandleSaveVirtual(l)
    \/ \E t \in PageTasks : \E s \in ProvisionStatus : HandleJitProvision(t, s)
    \/ \E t \in PageTasks : \E s \in TaskStatus : TaskProgress(t, s)
    \/ Render
    \/ IntervalTick
    \/ \E errors \in SUBSET PageTasks : PollReturns(errors)
    \/ CancelledPollReturns

\* The page does not depend on the deployment's retry setting.
PageInit == Init /\ maxRetry = MAX_RETRY_COUNT

PageSpec == PageInit /\ [][PageNext]_vars

PageTypeOK ==
    /\ serverStatus \in [PageTasks -> ProvisionStatus \cup {"none"}]
    /\ linkStatus \in [Links -> {"unset", "VIRTUAL", "PROVISIONING", "MATERIALIZED", "FAILED"}]
    /\ activeTasks \subseteq registered
    /\ inFlight \in 0..MaxInFlight
    /\ cancelledPolls \in BOOLEAN
    /\ Len(batch) <= MaxBatch
    /\ activeTasks = {} => inFlight = 0
    /\ terminalSeen \subseteq registered

\* ------------------------------------------------------------ MediaClassifier
\* Titles and filenames are sequences of tokens.
Titles ==
    { <<"Inception", "(2010)", "1080p", "BluRay">>,
      <<"Breaking", "Bad", "S01E01">>,
      <<"Planet", "Earth", "Documentary">>,
      <<"Attack", "on", "Titan">>,
      <<"Greatest", "Hits", "Album">> }

\* <<>>: no filename given.
Filenames == { <<>>, <<"Planet", "Earth", "S01E01", "mkv">> }

\* "none": no year given.
Years == {"none", "1994"}

Categories == {"Movies", "Series", "Documentaries", "Anime", "Music", "Others"}

\* The media_type arguments of build_dest_path; "none": not given.
MediaTypes == {"none", "Anime"}

\* The patterns in the order they are checked; a pattern matches a text that
\* holds one of its tokens.
Patterns ==
    << [category |-> "Series", tokens |-> {"S01E01"}],
       [category |-> "Documentaries", tokens |-> {"Documentary"}],
       [category |-> "Anime", tokens |-> {"Anime"}],
       [category |-> "Music", tokens |-> {"Album", "Soundtrack"}] >>

\* The category of a text that matches no pattern.
CatchAll == "Movies"

Matches(p, text) == \E i \in 1..Len(text) : text[i] \in p.tokens

RECURSIVE LastMatch(_, _, _)
LastMatch(patterns, text, found) ==
    IF patterns = <<>> THEN found
    ELSE LastMatch(Tail(patterns), text,
                   IF Matches(Head(patterns), text)
                   THEN Head(patterns).category ELSE found)

RECURSIVE FirstMatch(_, _)
FirstMatch(patterns, text) ==
    IF patterns = <<>> THEN CatchAll
    ELSE IF Matches(Head(patterns), text) THEN Head(patterns).category
    ELSE FirstMatch(Tail(patterns), text)

classify_LastMatch(title, filename) == LastMatch(Patterns, title \o filename, CatchAll)

\* def classify(self, title, filename=None) -> str
classify(title, filename) == FirstMatch(Patterns, title \o filename)

\* Year extraction: a token "(yyyy)" of the title.
YearTokens == {"(2010)", "(1994)"}

YearIn(token) == IF token = "(2010)" THEN "2010" ELSE "1994"

IsYearToken(token) == token \in YearTokens

ExtractYear(title) ==
    IF \E i \in 1..Len(title) : IsYearToken(title[i])
    THEN YearIn(SelectSeq(title, IsYearToken)[1])
    ELSE "Unknown"

NotYearToken(token) == ~IsYearToken(token)

\* The title as it is written in the path: without its year token.
CleanTitle(title) == SelectSeq(title, NotYearToken)

\* One segment of the pattern with its placeholder filled in.
Fill(segment, type, year, title) ==
    CASE segment = "{type}" -> <<type>>
      [] segment = "{year}" -> <<year>>
      [] segment = "{title}" -> title
      [] OTHER -> <<segment>>

RECURSIVE Format(_, _, _, _)
Format(pattern, type, year, title) ==
    IF pattern = <<>> THEN <<>>
    ELSE Fill(Head(pattern), type, year, title)
             \o Format(Tail(pattern), type, year, title)

TypeFor(title, filename, media_type) ==
    IF media_type = "none" THEN classify(title, filename) ELSE media_type

\* A build_dest_path that gives a directory it has handed out before a new
\* name.
build_dest_path_Cached(title, filename, media_type, year) ==
    Format(dest_pattern, TypeFor(title, filename, media_type),
           IF year = "none" THEN ExtractYear(title) ELSE year, CleanTitle(title))
        \o (IF TypeFor(title, filename, media_type) = dirCache
            THEN <<"(1)">> ELSE <<>>)

\* def build_dest_path(self, title, filename, media_type=None, year=None) -> str
build_dest_path(title, filename, media_type, year) ==
    Format(dest_pattern, TypeFor(title, filename, media_type),
           IF year = "none" THEN ExtractYear(title) ELSE year, CleanTitle(title))

Call(fn, args, result) == [fn |-> fn, args |-> args, result |-> result]

\* A caller keeps the result of a call, to compare later calls with it;
\* between: a call with other arguments was made since.
Remember(call) ==
    IF firstCall = NoCall
    THEN firstCall' \in {NoCall, call} /\ between' = FALSE
    ELSE /\ firstCall' = firstCall
         /\ between' = (between \/ call.fn # firstCall.fn \/ call.args # firstCall.args)

ClassifyCall(title, filename) ==
    /\ lastCall' = Call("classify", <<title, filename>>, <<classify(title, filename)>>)
    /\ Remember(lastCall')
    /\ UNCHANGED <<systemVars, guardVars, poolVars, clientVars, queueVars, pageVars,
                   dest_pattern, dirCache>>

BuildDestPathCall(title, filename, media_type, year) ==
    /\ lastCall' = Call("build_dest_path", <<title, filename, media_type, year>>,
                        build_dest_path(title, filename, media_type, year))
    /\ Remember(lastCall')
    /\ dirCache' = TypeFor(title, filename, media_type)
    /\ UNCHANGED <<systemVars, guardVars, poolVars, clientVars, queueVars, pageVars,
                   dest_pattern>>

\* MediaClassifier(dest_pattern): a classifier is constructed anew, with the
\* default pattern or a configured one.
Construct(pattern) ==
    /\ dest_pattern' = pattern
    /\ dirCache' = "none"
    /\ firstCall' = NoCall
    /\ lastCall' = NoCall
    /\ between' = FALSE
    /\ UNCHANGED <<systemVars, guardVars, poolVars, clientVars, queueVars, pageVars>>

ClassifierNext ==
    \/ \E pattern \in DestPatterns : Construct(pattern)
    \/ \E title \in Titles : \E filename \in Filenames : ClassifyCall(title, filename)
    \/ \E title \in Titles : \E filename \in Filenames :
          \E media_type \in MediaTypes : \E year \in Years :
              BuildDestPathCall(title, filename, media_type, year)

ClassifierInit == Init /\ maxRetry = MAX_RETRY_COUNT

ClassifierSpec == ClassifierInit /\ [][ClassifierNext]_vars

\* ------------------------------------------------------------ detail page: linkBusy
BusyLinks == 1..NumBusyLinks

\* `firstLink = links[0]`: the link the hero buttons act on.
FirstLink == 1

Buttons == {"hero", "item"}
Handlers == {"handleSaveVirtual", "handleJitProvision"}

\* The hero buttons are disabled by `!firstLink || linksLoading` only; the
\* buttons of a link item are disabled by `linkBusy[link.id]`.
ButtonEnabled(button, l) ==
    IF button = "hero" THEN l = FirstLink ELSE ~linkBusy[l]

\* A click runs handler h on link l up to its await:
\* `setLinkBusy(prev => ({...prev, [link.id]: true}))` and the request is sent.
HandlerStarts(h, button, l) ==
    /\ ButtonEnabled(button, l)
    /\ Len(requests) < MaxRequests
    /\ linkBusy' = [linkBusy EXCEPT ![l] = TRUE]
    /\ requests' = Append(requests, [link |-> l, handler |-> h, button |-> button])
    /\ UNCHANGED notBusyVars

\* The i-th outstanding request settles (saveVirtualLink and
\* triggerJitProvision resolve on success and on failure) and its handler
\* runs to its end: `setLinkBusy(prev => ({...prev, [link.id]: false}))`.
HandlerSettles(i) ==
    /\ i \in 1..Len(requests)
    /\ linkBusy' = [linkBusy EXCEPT ![requests[i].link] = FALSE]
    /\ requests' = [j \in 1..(Len(requests) - 1) |->
                        IF j < i THEN requests[j] ELSE requests[j + 1]]
    /\ UNCHANGED notBusyVars

BusyNext ==
    \/ \E h \in Handlers : \E button \in Buttons : \E l \in BusyLinks :
           HandlerStarts(h, button, l)
    \/ \E i \in 1..MaxRequests : HandlerSettles(i)

BusyInit == Init /\ maxRetry = MAX_RETRY_COUNT

BusySpec == BusyInit /\ [][BusyNext]_vars

\* ------------------------------------------------------------ API client: requestJson
RetryCounts == -1..MaxRetries
Backoffs == {0, DEFAULT_BACKOFF_MS}

\* The JSON a 2xx response of the backend carries: a task record, an object
\* without taskId, or null.
JsonBodies == {"TaskRecord", "NoTaskId", "Null"}
HttpErrors == {404, 500}

\* What one fetchWithTimeout call and the reading of its response give:
\* fetch rejects (network error), the AbortController aborts it (timeout), the
\* response is 2xx with a JSON body or with a body that does not parse, or
\* the response is not ok and its payload is read as JSON, as text, or not
\* at all (`response.text()` rejects after `response.json()` used the body).
FetchOutcomes ==
    {[kind |-> "ok", status |-> 200, body |-> b] : b \in JsonBodies}
    \cup {[kind |-> k, status |-> 0, body |-> "none"] : k \in {"network", "timeout"}}
    \cup {[kind |-> "invalidJson", status |-> 200, body |-> "unparsable"]}
    \cup {[kind |-> "status", status |-> st, body |-> b] :
              st \in HttpErrors, b \in {"json", "text", "unreadable"}}

\* The error attempt k throws on a failed outcome: `new ApiError("Request
\* failed with status ...", response.status, payload, requestId)` when the
\* payload was read, and otherwise what fetch or the body reader threw.
ErrorOf(o, k) ==
    CASE o.kind = "network" ->
             [type |-> "TypeError", status |-> 0, message |-> "fetch failed", attempt |-> k]
      [] o.kind = "timeout" ->
             [type |-> "AbortError", status |-> 0, message |-> "aborted", attempt |-> k]
      [] o.kind = "invalidJson" ->
             [type |-> "SyntaxError", status |-> 0, message |-> "invalid JSON", attempt |-> k]
      [] o.kind = "status" /\ o.body = "unreadable" ->
             [type |-> "TypeError", status |-> 0, message |-> "body unusable", attempt |-> k]
      [] OTHER ->
             [type |-> "ApiError", status |-> o.status,
              message |-> "Request failed with status", attempt |-> k]

\* `throw new ApiError("Request failed", 500)` after the loop.
TrailingError ==
    [type |-> "ApiError", status |-> 500, message |-> "Request failed", attempt |-> -1]

\* Variant of the catch block that gives up one attempt later.
LastAttempt_Strict(k, retries) == k > retries

\* `if (attempt >= retry.retries) throw error`.
LastAttempt(k, retries) == k >= retries

\* `retry.backoffMs * (attempt + 1)`.
Backoff(k) == retry.backoffMs * (k + 1)

\* requestJson is called: `retry = options.retry ?? DEFAULT_RETRY`, `attempt = 0`.
RequestJson(retries, backoffMs) ==
    /\ rqPc = "idle"
    /\ retry' = [retries |-> retries, backoffMs |-> backoffMs]
    /\ caller' = "direct"
    /\ attempt' = 0
    /\ rqPc' = "loop"
    /\ UNCHANGED <<notRequestVars, rqLog, rqResult, apiResult>>

\* The loop test `attempt <= retry.retries` holds: the body is entered.
LoopEnters ==
    /\ rqPc = "loop"
    /\ attempt <= retry.retries
    /\ rqPc' = "fetch"
    /\ UNCHANGED <<notRequestVars, wrapperVars, retry, attempt, rqLog, rqResult>>

\* The loop test fails: `throw new ApiError("Request failed", 500)`.
TrailingThrow ==
    /\ rqPc = "loop"
    /\ ~(attempt <= retry.retries)
    /\ rqPc' = "done"
    /\ rqResult' = [kind |-> "thrown", body |-> "none", error |-> TrailingError]
    /\ UNCHANGED <<notRequestVars, wrapperVars, retry, attempt, rqLog>>

\* One pass of the try block with outcome o, and the catch block after a
\* failure: rethrow on the last attempt, otherwise start the sleep.
FetchAttempt(o) ==
    /\ rqPc = "fetch"
    /\ IF o.kind = "ok"
       THEN /\ rqLog' = Append(rqLog, [ev |-> "fetch", outcome |-> o, ms |-> 0])
            /\ rqResult' = [kind |-> "returned", body |-> o.body, error |-> <<>>]
            /\ rqPc' = "done"
       ELSE IF LastAttempt(attempt, retry.retries)
       THEN /\ rqLog' = Append(rqLog, [ev |-> "fetch", outcome |-> o, ms |-> 0])
            /\ rqResult' = [kind |-> "thrown", body |-> "none",
                            error |-> ErrorOf(o, attempt)]
            /\ rqPc' = "done"
       ELSE /\ rqLog' = rqLog \o << [ev |-> "fetch", outcome |-> o, ms |-> 0],
                                    [ev |-> "sleep", outcome |-> o, ms |-> Backoff(attempt)] >>
            /\ rqResult' = rqResult
            /\ rqPc' = "sleep"
    /\ UNCHANGED <<notRequestVars, wrapperVars, retry, attempt>>

\* The sleep is over: `attempt += 1` and back to the loop test.
SleepEnds ==
    /\ rqPc = "sleep"
    /\ attempt' = attempt + 1
    /\ rqPc' = "loop"
    /\ UNCHANGED <<notRequestVars, wrapperVars, retry, rqLog, rqResult>>

\* `ok(data, meta)` and `fail(message, status, code)` (requestId left out;
\* status 0 stands for an undefined status).
ok(data) == [ok |-> TRUE, data |-> data, error |-> NoError]
fail(message, st, code) ==
    [ok |-> FALSE, data |-> "undefined",
     error |-> [message |-> message, status |-> st, code |-> code]]

Wrappers == {"saveVirtualLink", "triggerJitProvision", "getTaskStatus"}

\* The message of the wrapper's last `return fail(...)`.
FallbackMessage(fn) ==
    CASE fn = "saveVirtualLink" -> "Failed to save virtual link"
      [] fn = "triggerJitProvision" -> "Failed to trigger JIT provisioning"
      [] OTHER -> "Failed to fetch task status"

\* The catch block of a wrapper: an ApiError gives its message and status,
\* anything else the wrapper's own message without a status.
Caught(fn, error) ==
    IF error.type = "ApiError"
    THEN fail(error.message, error.status, "undefined")
    ELSE fail(FallbackMessage(fn), 0, "undefined")

\* The try block of a wrapper once requestJson returned `data`:
\* triggerJitProvision evaluates `!data.taskId`, which throws a TypeError on
\* null and otherwise `new ApiError("Missing taskId in response", 500, data)`
\* when the property is missing; the other two return ok(data).
Returned(fn, data) ==
    IF fn = "triggerJitProvision" /\ data = "Null"
    THEN Caught(fn, [type |-> "TypeError", status |-> 0,
                     message |-> "cannot read taskId of null", attempt |-> -1])
    ELSE IF fn = "triggerJitProvision" /\ data = "NoTaskId"
    THEN Caught(fn, [type |-> "ApiError", status |-> 500,
                     message |-> "Missing taskId in response", attempt |-> -1])
    ELSE ok(data)

\* A wrapper in backend mode calls requestJson without retry options.
WrapperCalls(fn) ==
    /\ rqPc = "idle"
    /\ caller' = fn
    /\ retry' = DEFAULT_RETRY
    /\ attempt' = 0
    /\ rqPc' = "loop"
    /\ UNCHANGED <<notRequestVars, rqLog, rqResult, apiResult>>

\* requestJson settled and the wrapper resolves.
WrapperReturns ==
    /\ rqPc = "done"
    /\ caller \in Wrappers
    /\ apiResult' = IF rqResult.kind = "returned"
                    THEN Returned(caller, rqResult.body)
                    ELSE Caught(caller, rqResult.error)
    /\ rqPc' = "resolved"
    /\ UNCHANGED <<notRequestVars, caller, retry, attempt, rqLog, rqResult>>

RequestNext ==
    \/ \E retries \in RetryCounts : \E backoffMs \in Backoffs :
           RequestJson(retries, backoffMs)
    \/ LoopEnters
    \/ TrailingThrow
    \/ \E o \in FetchOutcomes : FetchAttempt(o)
    \/ SleepEnds
    \/ \E fn \in Wrappers : WrapperCalls(fn)
    \/ WrapperReturns

RequestInit == Init /\ maxRetry = MAX_RETRY_COUNT

RequestSpec == RequestInit /\ [][RequestNext]_vars

\* ------------------------------------------------------------ API client in mock mode
\* `useMock`: no base URL is configured; the exported functions answer from
\* mockTasks and never call requestJson.
MockTaskIds == 1..NumMockTasks

\* Variant that creates the task as pending.
MockRecord_Pending(t, l) == [taskId |-> t, status |-> "pending", linkId |-> l]

\* The record triggerJitProvision builds in mock mode.
MockRecord(t, l) == [taskId |-> t, status |-> "processing", linkId |-> l]

\* `mockTasks.set(taskId, record)`.
MapSet(map, key, value) ==
    [k \in DOMAIN map \cup {key} |-> IF k = key THEN value ELSE map[k]]

\* saveVirtualLink in mock mode.
MockSaveVirtualLink ==
    /\ mockOut' = [fn |-> "saveVirtualLink", taskId |-> 0,
                   result |-> ok([status |-> "VIRTUAL"])]
    /\ UNCHANGED <<notMockVars, mockTasks>>

\* triggerJitProvision in mock mode for link l; t is the fresh task id
\* (`task_${Date.now()}_${random}`).
MockTriggerJitProvision(t, l) ==
    /\ t \notin DOMAIN mockTasks
    /\ mockTasks' = MapSet(mockTasks, t, MockRecord(t, l))
    /\ mockOut' = [fn |-> "triggerJitProvision", taskId |-> t,
                   result |-> ok(MockRecord(t, l))]
    /\ UNCHANGED notMockVars

\* getTaskStatus in mock mode, of a known or an unknown task id.
MockGetTaskStatus(t) ==
    /\ mockOut' = [fn |-> "getTaskStatus", taskId |-> t,
                   result |-> IF t \in DOMAIN mockTasks
                              THEN ok(mockTasks[t])
                              ELSE fail("Task not found", 404, "TASK_NOT_FOUND")]
    /\ UNCHANGED <<notMockVars, mockTasks>>

MockNext ==
    \/ MockSaveVirtualLink
    \/ \E t \in MockTaskIds : \E l \in BusyLinks : MockTriggerJitProvision(t, l)
    \/ \E t \in MockTaskIds : MockGetTaskStatus(t)

MockInit == Init /\ maxRetry = MAX_RETRY_COUNT

MockSpec == MockInit /\ [][MockNext]_vars

\* ------------------------------------------------------------ API client: searchQuarkLinks
\* Optional strings are "undefined" when missing; an optional array carries
\* a flag.
Queries == {"undefined", "", "dune"}
TmdbIds == {"undefined", "603"}

\* The items a group.list is made of: with an id, with an empty id and a
\* messageId, with neither, and without cloudLinks.
BackendItems ==
    { [id |-> "i1", messageId |-> "m1", title |-> "Dune", content |-> "",
       hasCloudLinks |-> TRUE, cloudLinks |-> <<"u1", "u2">>],
      [id |-> "", messageId |-> "m2", title |-> "", content |-> "Dune 4K",
       hasCloudLinks |-> TRUE, cloudLinks |-> <<"u3">>],
      [id |-> "undefined", messageId |-> "undefined", title |-> "undefined",
       content |-> "undefined", hasCloudLinks |-> TRUE, cloudLinks |-> <<"u4">>],
      [id |-> "i2", messageId |-> "undefined", title |-> "Dune", content |-> "undefined",
       hasCloudLinks |-> FALSE, cloudLinks |-> <<>>] }

\* The lists of at most n items, no item twice (the items of a list are
\* different messages).
RECURSIVE ListsUpTo(_, _)
ListsUpTo(S, n) ==
    IF n = 0 THEN {<<>>}
    ELSE LET shorter == ListsUpTo(S, n - 1)
         IN  shorter \cup
             UNION {{Append(q, x) : x \in {y \in S : \A j \in 1..Len(q) : q[j] # y}} :
                       q \in shorter}

\* The responses: group g of a response has id g.
BackendGroups == UNION {[1..n -> ListsUpTo(BackendItems, MaxItems)] : n \in 0..MaxGroups}
SearchData(lists) == [g \in 1..Len(lists) |-> [id |-> g, list |-> lists[g]]]

\* A JavaScript string that is neither undefined nor empty.
Truthy(str) == str \notin {"undefined", ""}

\* `params.query ?? params.tmdbId ?? ""`.
Keyword(params) ==
    IF params.query # "undefined" THEN params.query
    ELSE IF params.tmdbId # "undefined" THEN params.tmdbId
    ELSE ""

\* `item.title || item.content || "Untitled"`.
TitleOf(item) ==
    IF Truthy(item.title) THEN item.title
    ELSE IF Truthy(item.content) THEN item.content
    ELSE "Untitled"

\* Variant that keeps an empty id (`??` in place of `||`).
BaseId_Nullish(group, item, itemIndex) ==
    IF item.id # "undefined" THEN <<item.id>>
    ELSE IF item.messageId # "undefined" THEN <<item.messageId>>
    ELSE <<group.id, itemIndex>>

\* `item.id || item.messageId || `${group.id}-${itemIndex}``, as the parts
\* of the string.
BaseId(group, item, itemIndex) ==
    IF Truthy(item.id) THEN <<item.id>>
    ELSE IF Truthy(item.messageId) THEN <<item.messageId>>
    ELSE <<group.id, itemIndex>>

\* `item.cloudLinks ?? []`.
CloudLinks(item) == IF item.hasCloudLinks THEN item.cloudLinks ELSE <<>>

\* The inner forEach: the LinkItems pushed for the item at itemIndex.
ItemLinks(group, itemIndex) ==
    LET item == group.list[itemIndex + 1]
    IN  [n \in 1..Len(CloudLinks(item)) |->
            [id |-> Append(BaseId(group, item, itemIndex), n - 1),
             title |-> TitleOf(item),
             shareUrl |-> CloudLinks(item)[n]]]

\* `group.list.forEach`: the pushes of the first n items of the group.
RECURSIVE GroupLinks(_, _)
GroupLinks(group, n) ==
    IF n = 0 THEN <<>>
    ELSE GroupLinks(group, n - 1) \o ItemLinks(group, n - 1)

\* `response.data.forEach`: the pushes of the first n groups.
RECURSIVE DataLinks(_, _)
DataLinks(data, n) ==
    IF n = 0 THEN <<>>
    ELSE DataLinks(data, n - 1) \o GroupLinks(data[n], Len(data[n].list))

\* searchQuarkLinks in backend mode with an empty keyword: `return []`.
SearchEmptyKeyword(params) ==
    /\ searchOut.kind = "none"
    /\ Keyword(params) = ""
    /\ searchParams' = params
    /\ searchOut' = [kind |-> "resolved", links |-> <<>>]
    /\ UNCHANGED <<notSearchVars, searchData, searchRequests>>

\* searchQuarkLinks in backend mode: requestJson returns the response.
SearchQuarkLinks(params, data) ==
    /\ searchOut.kind = "none"
    /\ Keyword(params) # ""
    /\ searchParams' = params
    /\ searchRequests' = searchRequests + 1
    /\ searchData' = data
    /\ searchOut' = [kind |-> "resolved", links |-> DataLinks(data, Len(data))]
    /\ UNCHANGED notSearchVars

\* searchQuarkLinks in backend mode: requestJson throws and the call rejects.
SearchRejects(params) ==
    /\ searchOut.kind = "none"
    /\ Keyword(params) # ""
    /\ searchParams' = params
    /\ searchRequests' = searchRequests + 1
    /\ searchOut' = [kind |-> "rejected", links |-> <<>>]
    /\ UNCHANGED <<notSearchVars, searchData>>

SearchParams == [query : Queries, tmdbId : TmdbIds]

SearchNext ==
    \/ \E params \in SearchParams : SearchEmptyKeyword(params)
    \/ \E params \in SearchParams :
           /\ searchOut.kind = "none"
           /\ Keyword(params) # ""
           /\ \E lists \in BackendGroups : SearchQuarkLinks(params, SearchData(lists))
    \/ \E params \in SearchParams : SearchRejects(params)

SearchInit == Init /\ maxRetry = MAX_RETRY_COUNT

SearchSpec == SearchInit /\ [][SearchNext]_vars

\* ------------------------------------------------------------ claims
\* Tasks of r that are outstanding: queued, or held by a worker.
Outstanding(r) ==
    CountIn(queue, r) + Cardinality({w \in Workers : Holds(w, r)})

Owners(r) == {w \in Workers : InFlight(w, r)}

\* The step of worker w that ends its handling of the task it holds (not a
\* crash).
Ends(w) == pc'[w] = "idle" /\ crashes' = crashes

\* The step in which worker w decides the claim of the task it dequeued.
Decides(w) == pc[w] = "dequeued" /\ pc'[w] # "dequeued" /\ crashes' = crashes

\* C1: in every reachable state, at most one worker is in flight on a record
\* (it claimed the record and has not yet written MATERIALIZED, FAILED or the
\* retry self-loop), whatever the number of duplicate tasks.
C1_SingleOwner == \A r \in Records : Cardinality(Owners(r)) <= 1

\* A duplicate task is in the hands of a second worker while the first is in
\* flight on the record.
C1_Witness ==
    \E r \in Records : \E w1, w2 \in Workers :
        /\ w1 # w2
        /\ InFlight(w1, r)
        /\ pc[w2] = "dequeued"
        /\ task[w2].recordId = r

\* C2: with duplicate tasks delivered to different workers, the only worker
\* whose step moves the record out of PROVISIONING is the one in flight (an
\* operator's step changes no worker's position); a worker that finds the record
\* claimed by another makes no upstream call and leaves the record and both
\* queues unchanged.
C2_IdempotentClaim ==
    [][\A r \in Records :
        /\ (/\ status[r] = "PROVISIONING"
            /\ status'[r] # "PROVISIONING"
            /\ pc' # pc)
              => \E w \in Workers :
                    /\ Owners(r) = {w}
                    /\ Ends(w)
        /\ \A w \in Workers :
              (/\ Decides(w)
               /\ task[w].recordId = r
               /\ Owners(r) # {})
              => /\ pc'[w] = "idle"
                 /\ calls[w] = 0 /\ calls'[w] = 0
                 /\ UNCHANGED <<status, retryCount, errorMessage,
                                destinationPath, queue, dead>>
      ]_vars

\* A duplicate has just been dropped while another worker is in flight.
C2_Witness == out.kind = "dropped" /\ Owners(out.record) # {}

\* C3: a record whose every attempt fails with TransientError reaches FAILED,
\* with its task in the dead-letter queue, after exactly MAX_RETRY_COUNT + 1
\* attempts. The first conjunct is the final result (no task of the record is
\* left and no replay took place), the second the count at the step to FAILED.
C3_BoundedRetries ==
    /\ [](\A r \in Records :
            (/\ attempts[r] >= 1
             /\ transientFails[r] = attempts[r]
             /\ awaiting[r] # "replay"
             /\ Outstanding(r) = 0)
            => (status[r] = "FAILED" /\ attempts[r] = maxRetry + 1))
    /\ [][\A r \in Records :
            (/\ status[r] # "FAILED" /\ status'[r] = "FAILED"
             /\ transientFails'[r] = attempts'[r])
            => (attempts'[r] = maxRetry + 1 /\ InQueue(dead', r))]_vars

\* C4: under fair scheduling of the workers and finitely many crashes, every
\* record accepted for provisioning (task queued or status PROVISIONING)
\* eventually reaches MATERIALIZED or FAILED. Stated for the records that are
\* not waiting for a retried or replayed task (those are C9 and C8).
Accepted(r) == InQueue(queue, r) \/ status[r] = "PROVISIONING"

C4_NoWorkLost ==
    \A r \in Records :
        (Accepted(r) /\ awaiting[r] = "none")
            ~> (status[r] \in {"MATERIALIZED", "FAILED"} \/ awaiting[r] # "none")

\* C5: every status change is one of VIRTUAL->PROVISIONING,
\* PROVISIONING->MATERIALIZED, PROVISIONING->FAILED, FAILED->PROVISIONING
\* (PROVISIONING->PROVISIONING changes nothing); MATERIALIZED is never left
\* and VIRTUAL is never re-entered.
LegalTransitions ==
    { <<"VIRTUAL", "PROVISIONING">>, <<"PROVISIONING", "MATERIALIZED">>,
      <<"PROVISIONING", "PROVISIONING">>, <<"PROVISIONING", "FAILED">>,
      <<"FAILED", "PROVISIONING">> }

C8_DeadLetterReplay ==
    [][\A r \in Records :
        /\ (awaiting[r] # "replay" /\ awaiting'[r] = "replay")
              => /\ status'[r] = "PROVISIONING"
                 /\ retryCount'[r] = 0
                 /\ InQueue(dead, r)
                 /\ queue' = Append(queue, FirstFor(dead, r))
                 /\ dead' = RemoveFirst(dead, r)
        /\ \A w \in Workers :
              (/\ Decides(w)
               /\ task[w].recordId = r
               /\ awaiting[r] = "replay"
               /\ Owners(r) = {})
              => pc'[w] = "claimed"
        /\ \A w \in Workers :
              (/\ InFlight(w, r)
               /\ status[r] = "PROVISIONING"
               /\ outcome[w] = "ok"
               /\ Ends(w))
              => (status'[r] = "MATERIALIZED" /\ errorMessage'[r] = "")
      ]_vars

\* C9: on a retryable failure with attempts remaining the record stays
\* PROVISIONING, retryCount grows by exactly 1, exactly one copy of the task
\* is appended to the main queue, and the re-enqueued task is executed as a
\* new attempt (claimed, not dropped) when a worker takes it.
C9_RetrySelfLoop ==
    [][\A r \in Records : \A w \in Workers :
        /\ (/\ InFlight(w, r)
            /\ status[r] = "PROVISIONING"
            /\ pc[w] = "finishing"
            /\ outcome[w] = "TransientError"
            /\ retryCount[r] < maxRetry
            /\ Ends(w))
              => /\ status'[r] = "PROVISIONING"
                 /\ retryCount'[r] = retryCount[r] + 1
                 /\ queue' = Append(queue, task[w])
        /\ (/\ Decides(w)
            /\ task[w].recordId = r
            /\ awaiting[r] = "retry"
            /\ Owners(r) = {})
              => pc'[w] = "claimed"
      ]_vars

C11_EndToEnd ==
    /\ \A r \in Records :
          (status[r] = "VIRTUAL" /\ Outstanding(r) > 0)
              ~> (status[r] = "MATERIALIZED")
    /\ [](\A r \in Records :
            status[r] = "MATERIALIZED" =>
                /\ destinationPath[r] # ""
                /\ retryCount[r] = 0
                /\ errorMessage[r] = "")

\* A record was materialized by its first attempt.
C11_Witness ==
    \E r \in Records :
        /\ status[r] = "MATERIALIZED"
        /\ attempts[r] = 1
        /\ destinationPath[r] = DestinationOf(r)
        /\ transientFails[r] = 0

\* C12: after an operator force-terminated the provisioning a worker is
\* processing, that worker's final write (MATERIALIZED, FAILED or the retry
\* self-loop) changes nothing on the record and on the queues.
C12_ForceTerminate ==
    [][\A w \in Workers :
         (/\ pc[w] = "finishing"
          /\ terminated[task[w].recordId]
          /\ Ends(w))
         => UNCHANGED <<recordVars, queue, dead>>]_vars

\* A call of validate_cookie by caller c starts in this step.
CallBy(c) == gout'.caller = c /\ gout'.kind \in {"cached", "probe"}

\* The last completed probe began less than one validation interval ago.
WithinInterval ==
    /\ histProbe.start # None
    /\ now - histProbe.start < COOKIE_VALIDATION_INTERVAL

C14_SingleFlight ==
    Cardinality({c \in Callers : gpc[c] = "probing"}) <= 1

\* C16: after the cache was invalidated because of an upstream AuthError, no
\* call returns a cached "valid" verdict before a fresh probe has been sent.
C16_AuthInvalidates ==
    [][(gout'.kind = "cached" /\ gout'.verdict = TRUE) => ~mustProbe]_vars

\* C17: a call that began after updateSession completed returns a verdict
\* obtained with the updated credential, never one obtained with an older
\* credential.
C17_UpdateSession ==
    gout.kind \in {"cached", "probed"}
        => gout.from >= startSettled[gout.caller]

InCall(w) == pc[w] \in {"claimed", "resolved"}

\* In this step a further attempt of w's current call begins.
FurtherAttempt(w) ==
    /\ InCall(w)
    /\ pc'[w] = pc[w]
    /\ attempt_number'[w] > attempt_number[w]

C19_InnerRetryInvisible ==
    /\ [][\A w \in Workers :
            FurtherAttempt(w) => UNCHANGED <<recordVars, queue, dead>>]_vars
    /\ [][\A r \in Records :
            retryCount'[r] > retryCount[r]
            => \E w \in Workers :
                  /\ pc[w] = "finishing"
                  /\ task[w].recordId = r
                  /\ outcome[w] = "TransientError"
                  /\ attempt_number[w] = STOP_AFTER_ATTEMPT
                  /\ Ends(w)
                  /\ retryCount'[r] = retryCount[r] + 1
                  /\ queue' = Append(queue, task[w])
          ]_vars

\* A worker has retried inside its second upstream call (materialize), and
\* the record is still as the claim left it.
C19_Witness ==
    \E w \in Workers :
        /\ InCall(w)
        /\ attempt_number[w] > 0
        /\ calls[w] = 2
        /\ retryCount[task[w].recordId] = 0
        /\ status[task[w].recordId] = "PROVISIONING"
        /\ transientFails[task[w].recordId] = 0

\* Client c waits for a connection.
WaitsForConnection(c) == ticket[c] > 0 /\ c \notin inUse

\* C20: the calls in progress never exceed the pool maximum; a call that
\* arrives when the pool is exhausted waits; and a waiting call gets a
\* connection only when no call that arrived before it is still waiting.
C20_BoundedPool ==
    /\ [](Cardinality(inUse) <= MaxConnections)
    /\ [][\A c \in Clients :
            /\ (ticket[c] = 0 /\ ticket'[c] > 0 /\ PoolExhausted)
                  => (c \notin inUse' /\ WaitsForConnection(c)')
            /\ (WaitsForConnection(c) /\ c \in inUse')
                  => \A d \in Clients :
                        WaitsForConnection(d) => ticket[d] >= ticket[c]
          ]_vars

\* A call that had to wait holds the only connection while a call that
\* arrived after it still waits.
C20_Witness ==
    \E c \in inUse : \E d \in Clients :
        /\ queued[c]
        /\ WaitsForConnection(d)
        /\ ticket[d] > ticket[c]

\* ------------------------------------------------------------ record fields
\* The payloads that exist: queued, dead-lettered or held by a worker.
Payloads ==
    {queue[i] : i \in 1..Len(queue)} \cup {dead[i] : i \in 1..Len(dead)}
        \cup {task[w] : w \in {v \in Workers : pc[v] # "idle"}}

C22_RetryCount ==
    /\ [](\A r \in Records : retryCount[r] \in 0..maxRetry)
    /\ [][\A r \in Records :
            retryCount'[r] > retryCount[r]
            => /\ retryCount'[r] = retryCount[r] + 1
               /\ \E w \in Workers :
                    /\ InFlight(w, r)
                    /\ pc[w] = "finishing"
                    /\ outcome[w] \in Failures
                    /\ Ends(w)
                    /\ queue' = Append(queue, task[w])
         ]_vars

\* A failed attempt has been pushed back and counted.
C22_Witness ==
    \E r \in Records :
        /\ retryCount[r] = 1
        /\ awaiting[r] = "retry"
        /\ InQueue(queue, r)

\* C23: a MATERIALIZED record has an empty errorMessage, and a failed attempt
\* that is retried leaves the record's errorMessage as it was: the message
\* becomes non-empty only in a step that leaves the record FAILED.
C23_ErrorVisibility ==
    /\ [](\A r \in Records : status[r] = "MATERIALIZED" => errorMessage[r] = "")
    /\ [][\A r \in Records :
            /\ (retryCount'[r] > retryCount[r]) => errorMessage'[r] = errorMessage[r]
            /\ (errorMessage'[r] # errorMessage[r] /\ errorMessage'[r] # "")
                  => status'[r] = "FAILED"
         ]_vars

\* A record is PROVISIONING after a transient failure that was retried, with
\* nothing in its errorMessage.
C23_Witness ==
    \E r \in Records :
        /\ status[r] = "PROVISIONING"
        /\ transientFails[r] >= 1
        /\ awaiting[r] = "retry"
        /\ errorMessage[r] = ""

RECURSIVE Others(_, _)
Others(s, r) ==
    IF s = <<>> THEN <<>>
    ELSE IF Head(s).recordId = r THEN Others(Tail(s), r)
    ELSE <<Head(s)>> \o Others(Tail(s), r)

\* Consumer c takes an entry in this step.
Takes(c) == consumed'[c] # consumed[c] /\ consumed'[c] # NoEntry

\* C25: a consumer takes entries from queue:transfer only and never shrinks
\* the dead-letter list (it can only append the entry it handles); an entry
\* leaves the dead-letter list only through the operator's replay or clear;
\* and a replay for one record takes exactly one entry of that record off the
\* list, pushes it onto queue:transfer, and leaves the entries of every other
\* record as they were.
C25_NoAutoReprocess ==
    [][/\ \A c \in Consumers :
            consumed'[c] # consumed[c]
            => /\ Takes(c) => (transferList # <<>> /\ consumed'[c] = Head(transferList))
               /\ \/ deadList' = deadList
                  \/ deadList' = Append(deadList, consumed[c])
       /\ Len(deadList') < Len(deadList)
            => /\ consumed' = consumed
               /\ qop'.kind \in {"deadRetry", "deadClear"}
       /\ qop'.kind = "deadRetry"
            => /\ Others(deadList', qop'.record) = Others(deadList, qop'.record)
               /\ CountIn(deadList', qop'.record) = CountIn(deadList, qop'.record) - 1
               /\ Len(transferList') = Len(transferList) + 1
               /\ transferList'[Len(transferList')].recordId = qop'.record
      ]_vars

\* A record's entry has just been replayed while the entry of another record
\* stays on the dead-letter list.
C25_Witness ==
    /\ qop.kind = "deadRetry"
    /\ \E i \in 1..Len(deadList) : deadList[i].recordId # qop.record
    /\ transferList # <<>>
    /\ transferList[Len(transferList)].via = "replay"

\* C26: a consumer takes the head of queue:transfer; every push (provision,
\* retry, replay) adds at the tail and leaves the entries already queued in
\* place; so when an entry is taken, every entry still queued was pushed
\* after it, and a retried task is taken after everything that was queued
\* when it was pushed.
C26_Fifo ==
    [][/\ \A c \in Consumers :
            Takes(c)
            => /\ transferList # <<>>
               /\ consumed'[c] = Head(transferList)
               /\ transferList' = Tail(transferList)
               /\ \A i \in 1..Len(transferList') :
                    transferList'[i].stamp > consumed'[c].stamp
       /\ Len(transferList') > Len(transferList)
            => /\ Len(transferList') = Len(transferList) + 1
               /\ SubSeq(transferList', 1, Len(transferList)) = transferList
      ]_vars

\* A retried task that was pushed behind a waiting entry has been taken.
C26_Witness ==
    /\ qop.kind = "blpop"
    /\ \E c \in Consumers :
        /\ consumed[c].via = "retry"
        /\ consumed[c].ahead >= 1
        /\ consumed[c].recordId = qop.record

\* ------------------------------------------------------------ detail page
\* C30: the link status the page derives from a task status is PROVISIONING
\* for pending and processing, MATERIALIZED for completed, FAILED for failed
\* and PROVISIONING for any other value; so a link status that came from a
\* task status is never VIRTUAL, and is MATERIALIZED only if that task status
\* was completed. (A status request that failed gives no task status.)
C30_MapTaskStatus ==
    \A l \in Links :
        /\ linkFrom[l] \in {"pending", "processing"} => linkStatus[l] = "PROVISIONING"
        /\ linkFrom[l] = "completed" => linkStatus[l] = "MATERIALIZED"
        /\ linkFrom[l] = "failed" => linkStatus[l] = "FAILED"
        /\ linkFrom[l] \notin TaskStatus \cup {"none", "unavailable"}
               => linkStatus[l] = "PROVISIONING"
        /\ linkFrom[l] # "none" => linkStatus[l] # "VIRTUAL"
        /\ (linkFrom[l] # "none" /\ linkStatus[l] = "MATERIALIZED")
               => linkFrom[l] = "completed"

\* A provision answered with a status outside TaskStatus, and a poll of a
\* later task returned completed and set the link MATERIALIZED.
C30_Witness ==
    /\ \E t \in PageTasks : serverStatus[t] \notin TaskStatus \cup {"none"}
    /\ \E l \in Links : linkFrom[l] = "completed" /\ linkStatus[l] = "MATERIALIZED"
    /\ terminalSeen # {}

\* C27: a task enters the active set only in a provision whose response said
\* pending or processing; while no poll has returned completed or failed for
\* it, it stays in the set (and so is polled at every tick of the interval);
\* once a poll returned completed or failed it is out of the set, and no poll
\* sent afterwards (by the interval or by the effect starting again) asks for
\* it.
C27_PollingSet ==
    /\ [](\A t \in registered \ terminalSeen : t \in Tracked)
    /\ [](\A t \in terminalSeen : t \notin Tracked)
    /\ [][(\A t \in Tracked' \ Tracked :
               t \in registered' \ registered
                   /\ serverStatus'[t] \in {"pending", "processing"})
           /\ (IntervalTick => activeTasks \cap terminalSeen = {})
           /\ (Render => activeTasks' \cap terminalSeen = {})]_vars

\* ------------------------------------------------------------ classifier
\* The patterns that match a text, by their place in the check order.
Matching(text) == {i \in 1..Len(Patterns) : Matches(Patterns[i], text)}

C32_TaskConservation ==
    \A r \in Records : status[r] = "PROVISIONING" => Outstanding(r) = 1

\* ------------------------------------------------------------ cancelled polls
\* C33: the results of a poll of a cleaned-up effect change neither linkStatus
\* nor activeTasks (no setter is called), and no write-back of a poll removes
\* from the tracked set a task that was added after that poll took its
\* snapshot of activeTasks.
C33_CancelledPoll ==
    [][ /\ (CancelledPollReturns => UNCHANGED <<linkStatus, activeTasks, batch>>)
        /\ ((\E errors \in SUBSET PageTasks : PollReturns(errors))
                => \A t \in Tracked \ activeTasks : t \in Tracked') ]_vars

\* ------------------------------------------------------------ failed status polls
\* C34: a poll whose request for a task failed or gave no data sets that
\* task's link to FAILED and takes the task out of the polling set in the
\* same poll; a task that left the polling set is not asked for by a later
\* poll and never comes back into the set.
C34_FailedPoll ==
    [][ /\ \A errors \in SUBSET PageTasks :
               PollReturns(errors) =>
                   \A t \in errors : linkStatus'[LinkOf(t)] = "FAILED" /\ t \notin Tracked'
        /\ (IntervalTick => activeTasks \subseteq Tracked)
        /\ \A t \in registered : t \notin Tracked => t \notin Tracked' ]_vars

\* ------------------------------------------------------------ linkBusy
\* C37: linkBusy of a link is true exactly while a save or provision request
\* for that link is outstanding, whatever buttons started the requests.
C37_LinkBusy ==
    \A l \in BusyLinks :
        linkBusy[l] <=> \E i \in 1..Len(requests) : requests[i].link = l

\* ------------------------------------------------------------ requestJson
\* The fetch attempts of the call so far, in order.
Fetches == SelectSeq(rqLog, LAMBDA e : e.ev = "fetch")

\* C35: a requestJson call with retries = r >= 0 makes at most r + 1 fetch
\* attempts; it returns the body of the first successful attempt, every
\* attempt before it having failed; a failed attempt k < r, whatever its
\* kind, is followed by a sleep of backoffMs * (k + 1) and the last allowed
\* attempt by none; when every attempt failed the call rejects with the
\* error of the last attempt, never with the trailing "Request failed".
C35_RequestJson ==
    (rqPc # "idle" /\ retry.retries >= 0) =>
        /\ Len(Fetches) <= retry.retries + 1
        /\ \A i \in 1..Len(rqLog) :
               (rqLog[i].ev = "fetch" /\ rqLog[i].outcome.kind # "ok") =>
                   LET k == Len(SelectSeq(SubSeq(rqLog, 1, i), LAMBDA e : e.ev = "fetch")) - 1
                   IN  IF k < retry.retries
                       THEN /\ i < Len(rqLog)
                            /\ rqLog[i + 1].ev = "sleep"
                            /\ rqLog[i + 1].ms = retry.backoffMs * (k + 1)
                       ELSE /\ i = Len(rqLog)
                            /\ rqResult.kind = "thrown"
                            /\ rqResult.error = ErrorOf(rqLog[i].outcome, k)
        /\ \A i \in 1..Len(rqLog) :
               (rqLog[i].ev = "fetch" /\ rqLog[i].outcome.kind = "ok") =>
                   /\ i = Len(rqLog)
                   /\ rqResult.kind = "returned"
                   /\ rqResult.body = rqLog[i].outcome.body
        /\ rqResult.kind = "returned" =>
               /\ Fetches # <<>>
               /\ Fetches[Len(Fetches)].outcome.kind = "ok"
        /\ rqResult.kind = "thrown" =>
               /\ Len(Fetches) = retry.retries + 1
               /\ rqResult.error # TrailingError
               /\ rqResult.error.attempt = retry.retries
        /\ rqPc = "done" => rqResult.kind # "none"
        /\ (rqPc = "fetch" /\ attempt > 0) =>
               rqLog[Len(rqLog)].ev = "sleep"

\* Every allowed attempt failed, each in another way, with sleeps between
\* them, and the call rejected.
C35_Witness ==
    /\ retry.retries = MaxRetries
    /\ retry.backoffMs = DEFAULT_BACKOFF_MS
    /\ rqResult.kind = "thrown"
    /\ Len(Fetches) = MaxRetries + 1
    /\ \A i, j \in 1..Len(Fetches) :
           i # j => Fetches[i].outcome.kind # Fetches[j].outcome.kind

\* ------------------------------------------------------------ ApiResult wrappers
\* C36: a wrapper resolves to an ApiResult that is either ok with the data
\* the backend sent and no error, or not ok with an error and no data; and
\* a provision response that carries no taskId gives ok = false with
\* status 500.
C36_ApiResult ==
    rqPc = "resolved" =>
        /\ apiResult.ok => (apiResult.data = rqResult.body /\ apiResult.error = NoError)
        /\ ~apiResult.ok => (apiResult.data = "undefined" /\ apiResult.error # NoError)
        /\ rqResult.kind = "thrown" => ~apiResult.ok
        /\ (caller = "triggerJitProvision" /\ rqResult.kind = "returned"
                /\ rqResult.body \in {"NoTaskId", "Null"})
               => (~apiResult.ok /\ apiResult.error.status = 500)

\* ------------------------------------------------------------ mock mode
\* C38: in mock mode every stored task has status processing and no call
\* changes a stored record; getTaskStatus of a created task resolves to ok
\* with status processing, and getTaskStatus of an unknown task id to
\* ok = false with status 404 and code TASK_NOT_FOUND.
C38_MockTasks ==
    /\ [](\A t \in DOMAIN mockTasks : mockTasks[t].status = "processing")
    /\ [](mockOut.fn = "getTaskStatus" =>
             IF mockOut.taskId \in DOMAIN mockTasks
             THEN /\ mockOut.result.ok
                  /\ mockOut.result.data = mockTasks[mockOut.taskId]
                  /\ mockOut.result.data.status = "processing"
             ELSE /\ ~mockOut.result.ok
                  /\ mockOut.result.error.status = 404
                  /\ mockOut.result.error.code = "TASK_NOT_FOUND")
    /\ [][\A t \in DOMAIN mockTasks :
             t \in DOMAIN mockTasks' /\ mockTasks'[t] = mockTasks[t]]_vars

\* Two tasks were created and getTaskStatus of one of them was the last call.
C38_Witness ==
    /\ Cardinality(DOMAIN mockTasks) >= 2
    /\ mockOut.fn = "getTaskStatus"
    /\ mockOut.taskId \in DOMAIN mockTasks
    /\ mockOut.result.ok

\* ------------------------------------------------------------ searchQuarkLinks
\* The cloud links of the response: <<g, i, n>> is link n of item i (both
\* counted from 0) of group g.
CloudLinkPositions ==
    {<<g, i, n>> \in (1..Len(searchData)) \X (0..(MaxItems - 1)) \X (0..(MaxCloudLinks - 1)) :
        /\ i < Len(searchData[g].list)
        /\ searchData[g].list[i + 1].hasCloudLinks
        /\ n < Len(searchData[g].list[i + 1].cloudLinks)}

Earlier(a, b) ==
    \/ a[1] < b[1]
    \/ a[1] = b[1] /\ a[2] < b[2]
    \/ a[1] = b[1] /\ a[2] = b[2] /\ a[3] < b[3]

\* C31: a resolved search with a keyword gives one LinkItem per cloud link,
\* in group, item, link order; each has that link as shareUrl and the id
\* made of the item's id, else its messageId, else group id and item index,
\* followed by the link's index. With an empty keyword the result is the
\* empty list and no request is made.
C31_SearchQuarkLinks ==
    /\ (searchOut.kind = "resolved" /\ Keyword(searchParams) = "") =>
           (searchOut.links = <<>> /\ searchRequests = 0)
    /\ (searchOut.kind = "resolved" /\ Keyword(searchParams) # "") =>
           /\ searchRequests = 1
           /\ Len(searchOut.links) = Cardinality(CloudLinkPositions)
           /\ \A pos \in CloudLinkPositions :
                  LET item == searchData[pos[1]].list[pos[2] + 1]
                      rank == 1 + Cardinality({q \in CloudLinkPositions : Earlier(q, pos)})
                      base == IF Truthy(item.id) THEN <<item.id>>
                              ELSE IF Truthy(item.messageId) THEN <<item.messageId>>
                              ELSE <<searchData[pos[1]].id, pos[2]>>
                  IN  /\ searchOut.links[rank].shareUrl = item.cloudLinks[pos[3] + 1]
                      /\ searchOut.links[rank].id = Append(base, pos[3])

\* A response of two groups of two items: an item without cloudLinks and one
\* without ids in the first, an item with two links and one with an empty
\* id and a messageId in the second.
C31_Witness ==
    /\ searchOut.kind = "resolved"
    /\ Len(searchData) = 2
    /\ Len(searchData[1].list) = 2
    /\ Len(searchData[2].list) = 2
    /\ ~searchData[1].list[1].hasCloudLinks
    /\ searchData[1].list[2].id = "undefined"
    /\ searchData[2].list[1].id = "i1"
    /\ searchData[2].list[2].id = ""
    /\ Len(searchOut.links) = 4


====
